---- MODULE Spec2Model ----
(***************************************************************************)
(* Voice dictation pipeline of claude-code-sleep-preventer.                *)
(*                                                                         *)
(* The model follows src/src/dictation: the orchestrator                   *)
(* (DictationManager, mod.rs), the key-combination watcher                 *)
(* (GlobeKeyManager and its background thread, globe_key.rs), the audio    *)
(* recorder (audio.rs), the status overlay (overlay.rs) and the            *)
(* transcription worker thread spawned by stop_and_transcribe.             *)
(*                                                                         *)
(* Threads: one coordinating thread that calls start/stop/set_enabled/     *)
(* update on the manager, one watcher thread per GlobeKeyManager::start,   *)
(* the OS audio thread running the cpal input callback, and one worker     *)
(* thread per session that reached transcription.                          *)
(***************************************************************************)
EXTENDS Integers, Sequences, FiniteSets, TLC

\* ---------------------------------------------------------------- bounds
\* number of watcher threads GlobeKeyManager::start may spawn
MaxWatchers == 2
\* number of captures (sessions) the orchestrator may start
MaxSessions == 2
\* number of samples the hardware callback appends to one buffer
MaxSamples == 1
\* number of undelivered watcher events in the event channel
MaxPending == 1

\* value at which the model stops counting a diagnostics counter
MaxCount == 1
\* number of Start/Stop events followed on one event channel
MaxEmitted == 3

\* number of samples in the buffer of a recorder used on its own
MaxBuffer == 2
\* length of the sample sequences given to resample
MaxLen == 2
\* the sample rates given to resample are 1..MaxRate and two more
MaxRate == 2
\* length of the longest rising sequence given to resample
MaxRamp == 11
\* length of the short sample sequences given to save_to_wav
MaxWav == 4
\* number of channels of the recorder given to save_to_wav
MaxChannels == 2
\* NSWindows a RecordingOverlay used on its own creates in all
MaxWindows == 4
\* characters the download thread reads from curl
MaxStream == 5
\* sleep assertions the menu bar process creates in all
MaxAssertions == 3

Watchers == 1..MaxWatchers
Sessions == 1..MaxSessions

VARIABLES
    \* DictationManager (mod.rs:31-39)
    state,          \* DictationState
    enabled,        \* bool
    transcriber,    \* WhisperTranscriber of the manager: [available]
    recorder,       \* Option<AudioRecorder>
    overlay,        \* RecordingOverlay
    result_rx,      \* Option<Receiver<DictationResult>>: session id of the channel, 0 = None
    \* the coordinating thread
    alive,          \* FALSE once the manager has been dropped
    upc,            \* where the coordinating thread is inside update()
    \* GlobeKeyManager (globe_key.rs:152-156)
    event_rx,       \* Option<Receiver<GlobeKeyEvent>>: watcher id of the channel, 0 = None
    stop_flag,      \* Option<Arc<AtomicBool>>: watcher id whose flag is held, 0 = None
    thread_handle,  \* Option<JoinHandle>: watcher id, 0 = None
    events,         \* content of the channel whose receiver is event_rx
    \* watcher threads and the process globals they share
    watchers,       \* per spawned thread: position in run_event_tap and its stop flag
    spawned,        \* number of watcher threads spawned so far
    CALLBACK_STATE, \* static Mutex<Option<CallbackState>>
    EVENT_TAP,      \* static AtomicPtr: watcher id whose tap is stored, 0 = null
    \* audio, files, workers
    sessions,       \* number of captures started so far
    files,          \* the files in the temporary directory, by path
    workers,        \* per session: the transcription worker thread
    result_msg,     \* content of the channel whose receiver is result_rx
    injections,     \* calls of text_injection::inject_text, in order
    \* the watcher's diagnostics and the OS side of its taps (globe_key.rs:211-217)
    diag,           \* FLAGS_EVENT_COUNT, DISABLED_*_COUNT, LAST_FLAGS_RAW, LAST_KEYCODE
    tap_disabled,   \* the taps the OS has disabled and nothing has re-enabled
    held,           \* per watcher: the chord was down in the last event it saw
    emitted,        \* per event channel: the events sent on it so far
    \* an AudioRecorder used on its own (audio.rs:76-81)
    drained,        \* the Vec the last stop_recording returned
    appended,       \* the samples the hardware callback delivered since the last start
    \* one call of AudioRecorder::resample
    rs_samples,     \* the argument samples
    rs_from,        \* the argument from_rate
    rs_to,          \* the argument to_rate
    rs_output,      \* the call's outcome: pending, returned (with the Vec) or panicked
    \* one call of AudioRecorder::save_to_wav
    wav_samples,    \* the argument samples, interleaved
    wav_channels,   \* self.channels
    wav_sample_rate,\* self.sample_rate
    wav_mono,       \* the local mono_samples
    wav_file,       \* the file the call wrote: its WavSpec and its samples
    \* one call of text_injection::inject_text
    ax_text,        \* the argument text
    ax_world,       \* what the accessibility API will answer
    ax_calls,       \* the calls of the accessibility API made so far, in order
    ax_result,      \* the call's outcome
    \* a RecordingOverlay used on its own (the windows behind the overlay
    \* field of the manager are followed only there)
    ns_windows,     \* the NSWindows the overlay has created, in order: for
                    \* each whether it is on screen and its background colour
    ov_window,      \* self.window: 0 for None, else the index of the NSWindow
    OVERLAY_VISIBLE, \* the static of overlay.rs
    \* one call of transcription::download_model_with_window
    dl_pc,          \* position of the calling thread
    dl_result,      \* what the call returned
    dl_thread,      \* position of the download thread
    dl_progress,    \* locals of download_model_with_progress: line,
                    \* last_percent, the bytes read, its result
    dl_reports,     \* the progress reports made so far, in order
    dl_curl,        \* the curl process: running or exited, its exit
                    \* status, whether it has opened its output file
    dl_file,        \* whether a file exists at the model path
    dl_msg,         \* the result in the channel of the download thread
    dl_modal_stopped, \* stopModal has been posted
    \* one call of WhisperTranscriber::transcribe, up to its language hint
    lang_setting,   \* settings.speech_to_text.language
    lang_env,       \* the environment: for each variable its value, or NotSet
    lang_system,    \* NSLocale preferredLanguages
    lang_hint,      \* the argument after -l given to the tool
    \* one deserialization of AppSettings
    set_json,       \* the JSON object given to serde_json::from_str
    set_result,     \* the AppSettings it returns
    \* the sleep assertion of the menu bar process (main.rs:65-66, 222-276)
    CURRENT_ASSERTION_ID, \* static AtomicU32: the recorded assertion id, 0 = none
    MANUAL_SLEEP_PREVENTION, \* static AtomicBool
    assertions,     \* the assertion ids the power manager holds for the process
    assertions_created, \* number of assertions created so far
    sleep_pc,       \* per thread: its position in the sleep functions
    sleep_local     \* per thread: should_prevent and the local assertion_id

manager_vars == <<state, enabled, transcriber, recorder, overlay, result_rx>>
coord_vars   == <<alive, upc>>
globe_vars   == <<event_rx, stop_flag, thread_handle, events>>
watcher_vars == <<watchers, spawned, CALLBACK_STATE, EVENT_TAP>>
audio_vars   == <<sessions>>
worker_vars  == <<files, workers, result_msg, injections>>
tap_vars     == <<diag, tap_disabled, held, emitted>>
buffer_vars  == <<drained, appended>>
resample_vars == <<rs_samples, rs_from, rs_to, rs_output>>
wav_vars     == <<wav_samples, wav_channels, wav_sample_rate, wav_mono, wav_file>>
inject_vars  == <<ax_text, ax_world, ax_calls, ax_result>>
window_vars  == <<ns_windows, ov_window, OVERLAY_VISIBLE>>
download_vars == <<dl_pc, dl_result, dl_thread, dl_progress, dl_reports,
                   dl_curl, dl_file, dl_msg, dl_modal_stopped>>
lang_vars    == <<lang_setting, lang_env, lang_system, lang_hint>>
settings_vars == <<set_json, set_result>>
sleep_vars   == <<CURRENT_ASSERTION_ID, MANUAL_SLEEP_PREVENTION, assertions,
                   assertions_created, sleep_pc, sleep_local>>
more_vars    == <<lang_vars, settings_vars, sleep_vars>>
unit_vars    == <<wav_vars, inject_vars, window_vars, download_vars,
                   more_vars>>
lib_vars     == <<tap_vars, buffer_vars, resample_vars, unit_vars>>

vars == <<state, enabled, transcriber, recorder, overlay, result_rx,
          alive, upc,
          event_rx, stop_flag, thread_handle, events,
          watchers, spawned, CALLBACK_STATE, EVENT_TAP,
          sessions, files, workers, result_msg, injections,
          diag, tap_disabled, held, emitted, drained, appended,
          rs_samples, rs_from, rs_to, rs_output,
          wav_samples, wav_channels, wav_sample_rate, wav_mono, wav_file,
          ax_text, ax_world, ax_calls, ax_result,
          ns_windows, ov_window, OVERLAY_VISIBLE,
          dl_pc, dl_result, dl_thread, dl_progress, dl_reports,
          dl_curl, dl_file, dl_msg, dl_modal_stopped,
          lang_setting, lang_env, lang_system, lang_hint,
          set_json, set_result,
          CURRENT_ASSERTION_ID, MANUAL_SLEEP_PREVENTION, assertions,
          assertions_created, sleep_pc, sleep_local>>

\* ------------------------------------------------------------ data model
\* self.recorder = None
NoRecorder == [id |-> 0, stream |-> FALSE, samples |-> <<>>]

\* *state_guard = None
NoCallbackState == [tx |-> 0, is_dictating |-> FALSE]

\* no file at the temporary path
NoFile == [owner |-> 0, complete |-> FALSE]

\* an empty result channel / a worker without a result
NoMessage == [kind |-> "None", worker |-> 0, audio |-> 0, text |-> <<>>]

\* DictationResult::Transcribed(text): the text is identified by the worker
\* that produced it and the session whose audio the tool read; t are its
\* characters
Transcribed(s, a, t) ==
    [kind |-> "Transcribed", worker |-> s, audio |-> a, text |-> t]

\* DictationResult::Error(e); the orchestrator only logs the message e
Error(s, e) == [kind |-> "Error", worker |-> s, audio |-> 0, text |-> e]

\* a worker thread that was never spawned
NoWorker == [pc |-> "none", result |-> NoMessage]

\* a watcher thread that was never spawned
NoWatcher == [pc |-> "none", stop |-> FALSE]

\* the values the hardware callback delivers
SampleVals == {1}

\* std::env::temp_dir().join(format!("dictation_{}.wav", std::process::id()))
TempPath(s) == "dictation_pid.wav"

\* the temporary paths the sessions use
Paths == {TempPath(s) : s \in Sessions}

\* --------------------------------------------------------------- overlay
\* RecordingOverlay::show_with_mode; created is FALSE when NSScreen or
\* NSWindow returns nil
show_with_mode(ov, mode, created) ==
    IF ov.window
    THEN [window |-> TRUE, mode |-> mode]
    ELSE [window |-> created, mode |-> mode]

\* RecordingOverlay::show
show(ov, created) == show_with_mode(ov, "Recording", created)

\* a set_mode that leaves the overlay as it is
set_mode_ignored(ov, mode) == ov

\* RecordingOverlay::set_mode
set_mode(ov, mode) ==
    IF ov.window THEN show_with_mode(ov, mode, TRUE) ELSE ov

\* RecordingOverlay::hide
hide(ov) == [ov EXCEPT !.window = FALSE]

\* OverlayMode
OverlayModes == {"Recording", "Transcribing"}

\* RecordingOverlay::color_for_mode
color_for_mode(mode) == IF mode = "Recording" THEN "red" ELSE "orange"

\* RecordingOverlay::is_visible
is_visible == ov_window # 0

\* outcomes of making the window: NSScreen::mainScreen returned nil,
\* NSWindow::alloc..init returned nil, or the window was made
WindowOutcomes == {"no_screen", "no_window", "ok"}

\* the fields of the overlay that stand for the window, beside self.mode
overlay_fields == <<ns_windows, ov_window, OVERLAY_VISIBLE>>

\* a show_with_mode that makes a window without looking for one it has
RecordingOverlay_show_with_mode_always_creates(mode, outcome) ==
    /\ overlay' = show_with_mode(overlay, mode, outcome = "ok")
    /\ IF outcome = "ok"
       THEN /\ Len(ns_windows) < MaxWindows
            /\ ns_windows' = Append(ns_windows,
                                    [open |-> TRUE, color |-> color_for_mode(mode)])
            /\ ov_window' = Len(ns_windows) + 1
            /\ OVERLAY_VISIBLE' = TRUE
       ELSE UNCHANGED overlay_fields

\* RecordingOverlay::show_with_mode
RecordingOverlay_show_with_mode(mode, outcome) ==
    /\ overlay' = show_with_mode(overlay, mode, outcome = "ok")
    /\ IF ov_window # 0
       THEN /\ ns_windows' = [ns_windows EXCEPT ![ov_window].color = color_for_mode(mode)]
            /\ UNCHANGED <<ov_window, OVERLAY_VISIBLE>>
       ELSE IF outcome = "ok"
       THEN /\ Len(ns_windows) < MaxWindows
            /\ ns_windows' = Append(ns_windows,
                                    [open |-> TRUE, color |-> color_for_mode(mode)])
            /\ ov_window' = Len(ns_windows) + 1
            /\ OVERLAY_VISIBLE' = TRUE
       ELSE UNCHANGED overlay_fields

\* RecordingOverlay::show
RecordingOverlay_show(outcome) == RecordingOverlay_show_with_mode("Recording", outcome)

\* RecordingOverlay::set_mode
RecordingOverlay_set_mode(mode) ==
    IF ov_window # 0
    THEN RecordingOverlay_show_with_mode(mode, "ok")
    ELSE /\ overlay' = set_mode(overlay, mode)
         /\ UNCHANGED overlay_fields

\* RecordingOverlay::hide
RecordingOverlay_hide ==
    /\ overlay' = hide(overlay)
    /\ IF ov_window # 0
       THEN /\ ns_windows' = [ns_windows EXCEPT ![ov_window].open = FALSE]
            /\ ov_window' = 0
       ELSE UNCHANGED <<ns_windows, ov_window>>
    /\ OVERLAY_VISIBLE' = FALSE

\* ------------------------------------------------------------- channels
\* GlobeKeyManager::try_recv
try_recv ==
    IF event_rx = 0 THEN "None"
    ELSE IF events = <<>> THEN "None"
    ELSE Head(events)

\* Sender<GlobeKeyEvent>::send on the channel of watcher tx; the result is
\* discarded by every caller, and a send to a dropped receiver is lost
send_event(tx, ev) ==
    IF event_rx = tx
    THEN /\ Len(events) < MaxPending
         /\ events' = Append(events, ev)
    ELSE events' = events

\* Receiver<DictationResult>::try_recv on the stored receiver
result_try_recv ==
    IF result_msg.kind # "None" THEN result_msg.kind
    ELSE IF workers[result_rx].pc \in {"done", "panicked"} THEN "Disconnected"
    ELSE "Empty"

\* u64::MAX, the value of LAST_KEYCODE before any key event; no key code
\* has it
U64_MAX == -1

\* the statics FLAGS_EVENT_COUNT, DISABLED_TIMEOUT_COUNT,
\* DISABLED_USER_INPUT_COUNT, LAST_FLAGS_RAW and LAST_KEYCODE as the
\* process starts
NoDiagnostics ==
    [flags_events |-> 0, disabled_timeout |-> 0, disabled_user_input |-> 0,
     last_flags_raw |-> 0, last_keycode |-> U64_MAX]

\* the watcher's statics and taps as the process starts
InitTap ==
    /\ diag = NoDiagnostics
    /\ tap_disabled = {}
    /\ held = [w \in Watchers |-> FALSE]
    /\ emitted = [w \in Watchers |-> <<>>]

\* no stop_recording has returned yet
InitBuffer ==
    /\ drained = <<>>
    /\ appended = <<>>

\* no call of resample is under way
NoCall == [status |-> "none", samples |-> <<>>]

\* no call of resample is under way
InitNoCall ==
    /\ rs_samples = <<>>
    /\ rs_from = 1
    /\ rs_to = 1
    /\ rs_output = NoCall

\* no file was written
NoWav == [status |-> "none", spec |-> <<>>, samples |-> <<>>]

\* no call of save_to_wav is under way
InitNoWav ==
    /\ wav_samples = <<>>
    /\ wav_channels = 1
    /\ wav_sample_rate = 1
    /\ wav_mono = <<>>
    /\ wav_file = NoWav

\* an accessibility API that grants and finds everything
GrantingWorld == [trusted |-> TRUE, system_wide |-> TRUE, copy_error |-> 0,
                  focused |-> TRUE, set_error |-> 0]

\* no call of inject_text is under way
InitNoInject ==
    /\ ax_text = <<>>
    /\ ax_world = GrantingWorld
    /\ ax_calls = <<>>
    /\ ax_result = "none"

\* RecordingOverlay::new and the static as the process starts
InitOverlay ==
    /\ ns_windows = <<>>
    /\ ov_window = 0
    /\ OVERLAY_VISIBLE = FALSE

\* the locals of download_model_with_progress before its loop
NoProgress == [line |-> <<>>, last_percent |-> -1, read |-> 0, result |-> "none"]

\* no curl process
NoCurl == [state |-> "none", success |-> FALSE, opened |-> FALSE]

\* no call of download_model_with_window is under way
InitNoDownload ==
    /\ dl_pc = "none"
    /\ dl_result = "none"
    /\ dl_thread = "none"
    /\ dl_progress = NoProgress
    /\ dl_reports = <<>>
    /\ dl_curl = NoCurl
    /\ dl_file = FALSE
    /\ dl_msg = "none"
    /\ dl_modal_stopped = FALSE

\* env::var(key) is Err
NotSet == <<"not set">>

\* no call of transcribe is followed up to its language hint
InitNoLanguage ==
    /\ lang_setting = <<>>
    /\ lang_env = <<>>
    /\ lang_system = <<>>
    /\ lang_hint = <<>>

\* a key that the JSON object does not have
Absent == [present |-> FALSE]

\* a key that the JSON object has, with its value
Present(value) == [present |-> TRUE, value |-> value]

\* no settings are deserialized
InitNoSettings ==
    /\ set_json = Absent
    /\ set_result = Absent

\* the threads of the menu bar process that touch the sleep assertion: the
\* tick thread and the thread of the event loop
SleepThreads == {"tick", "ui"}

\* a thread outside the sleep functions, with no local values
NoSleepLocal == [should_prevent |-> FALSE, assertion_id |-> 0]

\* the statics as declared, no assertion created, both threads outside the
\* sleep functions
InitNoSleep ==
    /\ CURRENT_ASSERTION_ID = 0
    /\ MANUAL_SLEEP_PREVENTION = TRUE
    /\ assertions = {}
    /\ assertions_created = 0
    /\ sleep_pc = [t \in SleepThreads |-> "idle"]
    /\ sleep_local = [t \in SleepThreads |-> NoSleepLocal]

\* none of the other units is used
InitNoMore == InitNoLanguage /\ InitNoSettings /\ InitNoSleep

\* no unit is used on its own
InitNoUnit ==
    InitNoWav /\ InitNoInject /\ InitOverlay /\ InitNoDownload /\ InitNoMore

\* DictationManager::new, GlobeKeyManager::new and the process statics
InitManager ==
    /\ state = "Idle"
    /\ enabled = TRUE
    /\ transcriber \in {[available |-> TRUE], [available |-> FALSE]}
    /\ recorder = NoRecorder
    /\ overlay = [window |-> FALSE, mode |-> "Recording"]
    /\ result_rx = 0
    /\ alive = TRUE
    /\ upc = "idle"
    /\ event_rx = 0
    /\ stop_flag = 0
    /\ thread_handle = 0
    /\ events = <<>>
    /\ watchers = [w \in Watchers |-> NoWatcher]
    /\ spawned = 0
    /\ CALLBACK_STATE = NoCallbackState
    /\ EVENT_TAP = 0
    /\ sessions = 0
    /\ files = [p \in Paths |-> NoFile]
    /\ workers = [s \in Sessions |-> NoWorker]
    /\ result_msg = NoMessage
    /\ injections = <<>>

Init ==
    /\ InitManager
    /\ InitTap
    /\ InitBuffer
    /\ InitNoCall
    /\ InitNoUnit

\* ------------------------------------------------------ GlobeKeyManager
\* GlobeKeyManager::start: a no-op when already started, otherwise a fresh
\* channel, a fresh stop flag and a spawned thread running run_event_tap
GlobeKeyManager_start ==
    IF event_rx # 0
    THEN UNCHANGED <<event_rx, stop_flag, thread_handle, events, watchers, spawned>>
    ELSE /\ spawned < MaxWatchers
         /\ spawned' = spawned + 1
         /\ watchers' = [watchers EXCEPT ![spawned + 1] = [pc |-> "init", stop |-> FALSE]]
         /\ event_rx' = spawned + 1
         /\ stop_flag' = spawned + 1
         /\ thread_handle' = spawned + 1
         /\ events' = <<>>

\* GlobeKeyManager::stop: sets the flag, drops the join handle without
\* joining, drops the receiver
GlobeKeyManager_stop ==
    /\ watchers' = IF stop_flag # 0
                   THEN [watchers EXCEPT ![stop_flag].stop = TRUE]
                   ELSE watchers
    /\ stop_flag' = 0
    /\ thread_handle' = 0
    /\ event_rx' = 0
    /\ events' = <<>>

\* ----------------------------------------------------- DictationManager
\* DictationManager::start
start ==
    IF ~transcriber.available
    THEN UNCHANGED <<event_rx, stop_flag, thread_handle, events, watchers, spawned>>
    ELSE GlobeKeyManager_start

\* stop() that tears the watcher down and hides the overlay but leaves the
\* state as it is
stop_keeps_state ==
    /\ GlobeKeyManager_stop
    /\ overlay' = hide(overlay)
    /\ state' = state

\* DictationManager::stop
stop ==
    /\ GlobeKeyManager_stop
    /\ overlay' = hide(overlay)
    /\ state' = "Idle"

\* a set_enabled that only stores the flag
set_enabled_flag_only(b) ==
    /\ enabled' = b
    /\ UNCHANGED <<event_rx, stop_flag, thread_handle, events, watchers,
                   overlay, state>>

\* DictationManager::set_enabled
set_enabled(b) ==
    /\ enabled' = b
    /\ IF ~b
       THEN stop
       ELSE UNCHANGED <<event_rx, stop_flag, thread_handle, events, watchers,
                        overlay, state>>

\* the coordinating thread calls start()
CallStart ==
    /\ alive /\ upc = "idle"
    /\ start
    /\ UNCHANGED <<manager_vars, coord_vars, CALLBACK_STATE, EVENT_TAP,
                   audio_vars, worker_vars>>

\* the coordinating thread calls stop()
CallStop ==
    /\ alive /\ upc = "idle"
    /\ stop
    /\ UNCHANGED <<enabled, transcriber, recorder, result_rx, coord_vars,
                   spawned, CALLBACK_STATE, EVENT_TAP, audio_vars, worker_vars>>

\* the coordinating thread calls set_enabled(b)
CallSetEnabled(b) ==
    /\ alive /\ upc = "idle"
    /\ set_enabled(b)
    /\ UNCHANGED <<transcriber, recorder, result_rx, coord_vars,
                   spawned, CALLBACK_STATE, EVENT_TAP, audio_vars, worker_vars>>

\* impl Drop for DictationManager: stop(), then the fields are dropped
\* (the recorder with its stream, the result receiver)
DropManager ==
    /\ alive /\ upc = "idle"
    /\ stop
    /\ alive' = FALSE
    /\ recorder' = NoRecorder
    /\ result_rx' = 0
    /\ result_msg' = NoMessage
    /\ UNCHANGED <<enabled, transcriber, upc, spawned, CALLBACK_STATE,
                   EVENT_TAP, audio_vars, files, workers, injections>>

\* a stop_recording that drops the stream and copies the samples out
\* without taking them
stop_recording_copies(rec) == [rec EXCEPT !.stream = FALSE]

\* AudioRecorder::stop_recording: drops the stream and takes the samples
stop_recording(rec) == [rec EXCEPT !.stream = FALSE, !.samples = <<>>]

\* AudioRecorder::save_to_wav for session s: the file left at the path.
\* WavWriter::create truncates the file; a later write_sample or finalize
\* error leaves the incomplete file behind
save_to_wav(s, outcome) ==
    IF outcome = "ok" THEN [files EXCEPT ![TempPath(s)] = [owner |-> s, complete |-> TRUE]]
    ELSE IF outcome = "write_failed"
    THEN [files EXCEPT ![TempPath(s)] = [owner |-> s, complete |-> FALSE]]
    ELSE files

\* outcomes of AudioRecorder::new followed by AudioRecorder::start_recording
CaptureOutcomes == {"ok", "new_failed", "start_failed"}

\* outcomes of AudioRecorder::save_to_wav
SaveOutcomes == {"ok", "create_failed", "write_failed"}

\* start_recording that opens the capture and shows the overlay but does
\* not enter Recording
start_recording_stays_idle(outcome, created) ==
    IF outcome = "new_failed"
    THEN UNCHANGED <<recorder, overlay, state, sessions>>
    ELSE IF outcome = "start_failed"
    THEN UNCHANGED <<recorder, overlay, state, sessions>>
    ELSE /\ sessions < MaxSessions
         /\ sessions' = sessions + 1
         /\ recorder' = [id |-> sessions + 1, stream |-> TRUE, samples |-> <<>>]
         /\ overlay' = show(overlay, created)
         /\ state' = state

\* a start_recording that stores the recorder before it starts it, so that
\* a recorder whose start failed stays stored
start_recording_stores_first(outcome, created) ==
    IF outcome = "new_failed"
    THEN UNCHANGED <<recorder, overlay, state, sessions>>
    ELSE IF outcome = "start_failed"
    THEN /\ sessions < MaxSessions
         /\ sessions' = sessions + 1
         /\ recorder' = [id |-> sessions + 1, stream |-> FALSE, samples |-> <<>>]
         /\ UNCHANGED <<overlay, state>>
    ELSE /\ sessions < MaxSessions
         /\ sessions' = sessions + 1
         /\ recorder' = [id |-> sessions + 1, stream |-> TRUE, samples |-> <<>>]
         /\ overlay' = show(overlay, created)
         /\ state' = "Recording"

\* DictationManager::start_recording
start_recording(outcome, created) ==
    IF outcome = "new_failed"
    THEN UNCHANGED <<recorder, overlay, state, sessions>>
    ELSE IF outcome = "start_failed"
    THEN UNCHANGED <<recorder, overlay, state, sessions>>
    ELSE /\ sessions < MaxSessions
         /\ sessions' = sessions + 1
         /\ recorder' = [id |-> sessions + 1, stream |-> TRUE, samples |-> <<>>]
         /\ overlay' = show(overlay, created)
         /\ state' = "Recording"

\* an emptiness test that never finds the drained samples empty
no_audio_never(samples) == FALSE

\* stop_and_transcribe: samples.is_empty()
no_audio(samples) == samples = <<>>

\* a test of the save result that takes every outcome for success
save_failed_never(save) == FALSE

\* stop_and_transcribe: if let Err(e) = recorder.save_to_wav(..)
save_failed(save) == save # "ok"

\* a spawn that keeps a receiver that is already stored instead of
\* installing the fresh one
install_receiver_keeps_old(s) ==
    /\ result_rx' = IF result_rx # 0 THEN result_rx ELSE s
    /\ result_msg' = IF result_rx # 0 THEN result_msg ELSE NoMessage

\* a spawn that drops the fresh receiver instead of storing it
install_receiver_dropped(s) ==
    /\ result_rx' = 0
    /\ result_msg' = NoMessage

\* stop_and_transcribe: let (tx, rx) = mpsc::channel(); self.result_rx = Some(rx)
install_receiver(s) ==
    /\ result_rx' = s
    /\ result_msg' = NoMessage

\* DictationManager::stop_and_transcribe
stop_and_transcribe(save) ==
    LET ov == set_mode(overlay, "Transcribing")
        s  == recorder.id
    IN  IF recorder.id = 0
        THEN /\ overlay' = hide(ov)
             /\ state' = "Idle"
             /\ UNCHANGED <<recorder, files, result_rx, result_msg, workers>>
        ELSE IF no_audio(recorder.samples)
        THEN /\ recorder' = stop_recording(recorder)
             /\ overlay' = hide(ov)
             /\ state' = "Idle"
             /\ UNCHANGED <<files, result_rx, result_msg, workers>>
        ELSE IF save_failed(save)
        THEN /\ recorder' = NoRecorder
             /\ files' = save_to_wav(s, save)
             /\ overlay' = hide(ov)
             /\ state' = "Idle"
             /\ UNCHANGED <<result_rx, result_msg, workers>>
        ELSE /\ recorder' = NoRecorder
             /\ files' = save_to_wav(s, save)
             /\ install_receiver(s)
             /\ state' = "Transcribing"
             /\ overlay' = ov
             /\ workers' = [workers EXCEPT ![s] = [NoWorker EXCEPT !.pc = "transcribe"]]

\* an update() that looks at the event channel once per call: after one
\* event it neither receives another nor goes on to the result
InUpdate_once == alive /\ enabled /\ upc = "idle"

\* The coordinating thread is inside update() and about to call
\* globe_key.try_recv(): either update() was just entered with the manager
\* enabled, or the event loop has handled an event and iterates
InUpdate == alive /\ enabled /\ upc \in {"idle", "events"}

\* update() on a disabled manager returns at once
UpdateDisabled ==
    /\ alive /\ upc = "idle"
    /\ ~enabled
    /\ UNCHANGED vars

\* update(): the event loop receives Ready
UpdateReady ==
    /\ InUpdate
    /\ try_recv = "Ready"
    /\ events' = Tail(events)
    /\ upc' = "events"
    /\ UNCHANGED <<manager_vars, alive, event_rx, stop_flag, thread_handle,
                   watcher_vars, audio_vars, worker_vars>>

\* an event loop that starts a capture on every DictateStart, whatever the
\* state
UpdateDictateStart_any_state(outcome, created) ==
    /\ InUpdate
    /\ try_recv = "DictateStart"
    /\ events' = Tail(events)
    /\ upc' = "events"
    /\ start_recording(outcome, created)
    /\ UNCHANGED <<enabled, transcriber, result_rx, alive, event_rx,
                   stop_flag, thread_handle, watcher_vars, worker_vars>>

\* update(): the event loop receives DictateStart
UpdateDictateStart(outcome, created) ==
    /\ InUpdate
    /\ try_recv = "DictateStart"
    /\ events' = Tail(events)
    /\ upc' = "events"
    /\ IF state = "Idle"
       THEN start_recording(outcome, created)
       ELSE UNCHANGED <<recorder, overlay, state, sessions>>
    /\ UNCHANGED <<enabled, transcriber, result_rx, alive, event_rx,
                   stop_flag, thread_handle, watcher_vars, worker_vars>>

\* update(): the event loop receives DictateStop
UpdateDictateStop(save) ==
    /\ InUpdate
    /\ try_recv = "DictateStop"
    /\ events' = Tail(events)
    /\ upc' = "events"
    /\ IF state = "Recording"
       THEN stop_and_transcribe(save)
       ELSE UNCHANGED <<recorder, overlay, state, files, result_rx,
                        result_msg, workers>>
    /\ UNCHANGED <<enabled, transcriber, alive, event_rx, stop_flag,
                   thread_handle, watcher_vars, audio_vars, injections>>

\* a result arm that calls inject_text before it hides the overlay
on_transcribed_injects_first ==
    /\ injections' = Append(injections,
           [text |-> [worker |-> result_msg.worker, audio |-> result_msg.audio,
                      chars |-> result_msg.text],
            overlay_window |-> overlay.window])
    /\ overlay' = hide(overlay)
    /\ state' = "Idle"
    /\ result_rx' = 0
    /\ result_msg' = NoMessage

\* update(): Ok(DictationResult::Transcribed(text)). The call of
\* text_injection::inject_text is recorded with its argument and with
\* whether the overlay window exists at the moment of the call; its result
\* is only logged
on_transcribed ==
    LET ov == hide(overlay) IN
    /\ overlay' = ov
    /\ injections' = Append(injections,
           [text |-> [worker |-> result_msg.worker, audio |-> result_msg.audio,
                      chars |-> result_msg.text],
            overlay_window |-> ov.window])
    /\ state' = "Idle"
    /\ result_rx' = 0
    /\ result_msg' = NoMessage

\* an error arm that logs the error and goes on waiting for a result
on_error_keeps_waiting ==
    UNCHANGED <<overlay, state, result_rx, result_msg, injections>>

\* update(): Ok(DictationResult::Error(e))
on_error ==
    /\ overlay' = hide(overlay)
    /\ state' = "Idle"
    /\ result_rx' = 0
    /\ result_msg' = NoMessage
    /\ UNCHANGED injections

\* a disconnect arm that forgets to hide the overlay
on_disconnected_keeps_overlay ==
    /\ overlay' = overlay
    /\ state' = "Idle"
    /\ result_rx' = 0
    /\ result_msg' = NoMessage
    /\ UNCHANGED injections

\* update(): Err(mpsc::TryRecvError::Disconnected)
on_disconnected ==
    /\ overlay' = hide(overlay)
    /\ state' = "Idle"
    /\ result_rx' = 0
    /\ result_msg' = NoMessage
    /\ UNCHANGED injections

\* update(): if self.state == Transcribing { if let Some(rx) = &self.result_rx
result_expected == state = "Transcribing" /\ result_rx # 0

\* update(): try_recv returns None, the event loop ends, and the check for
\* a transcription result follows; injected is the outcome of
\* text_injection::inject_text
UpdateResult(injected) ==
    /\ InUpdate
    /\ try_recv = "None"
    /\ upc' = "idle"
    /\ IF result_expected
       THEN CASE result_try_recv = "Transcribed" -> on_transcribed
              [] result_try_recv = "Error" -> on_error
              [] result_try_recv = "Empty" ->
                   UNCHANGED <<overlay, state, result_rx, result_msg, injections>>
              [] result_try_recv = "Disconnected" -> on_disconnected
       ELSE UNCHANGED <<overlay, state, result_rx, result_msg, injections>>
    /\ UNCHANGED <<enabled, transcriber, recorder, alive, globe_vars,
                   watcher_vars, audio_vars, files, workers>>

\* ---------------------------------------------- watcher thread (run_event_tap)
\* run_event_tap: "Initialize global callback state"
WatcherInit(w) ==
    /\ watchers[w].pc = "init"
    /\ CALLBACK_STATE' = [tx |-> w, is_dictating |-> FALSE]
    /\ watchers' = [watchers EXCEPT ![w].pc = "create"]
    /\ UNCHANGED <<manager_vars, coord_vars, globe_vars, spawned, EVENT_TAP,
                   audio_vars, worker_vars>>

\* outcomes of installing the tap: CGEventTapCreate returned null, or
\* CFMachPortCreateRunLoopSource returned null, or both succeeded
TapOutcomes == {"ok", "tap_null", "source_null"}

\* run_event_tap: CGEventTapCreate, EVENT_TAP.store, CGEventTapEnable,
\* CFMachPortCreateRunLoopSource, CFRunLoopAddSource, tx.send(Ready) and
\* the first test of the stop flag. A null tap or a null source ends the
\* thread without any cleanup. A thread that finds the flag set never
\* enters CFRunLoopRunInMode ("exit"); one that finds it clear is inside
\* CFRunLoopRunInMode ("loop"), where its callback runs
WatcherInstallTap(w, outcome) ==
    /\ watchers[w].pc = "create"
    /\ IF outcome = "tap_null"
       THEN /\ UNCHANGED <<EVENT_TAP, events>>
            /\ watchers' = [watchers EXCEPT ![w].pc = "done"]
       ELSE IF outcome = "source_null"
       THEN /\ EVENT_TAP' = w
            /\ events' = events
            /\ watchers' = [watchers EXCEPT ![w].pc = "done"]
       ELSE /\ EVENT_TAP' = w
            /\ send_event(w, "Ready")
            /\ watchers' = [watchers EXCEPT
                   ![w].pc = IF watchers[w].stop THEN "exit" ELSE "loop"]
    /\ UNCHANGED <<manager_vars, coord_vars, event_rx, stop_flag, thread_handle,
                   spawned, CALLBACK_STATE, audio_vars, worker_vars>>

\* a callback that reports the level of the chord instead of its edges: it
\* sends Start on every event with the chord down and never records that
\* dictation began
event_tap_callback_level(w, fn, shift) ==
    /\ watchers[w].pc = "loop"
    /\ IF CALLBACK_STATE.tx # 0
       THEN LET should_dictate == fn /\ shift
                was_dictating  == CALLBACK_STATE.is_dictating
            IN  IF should_dictate
                THEN /\ CALLBACK_STATE' = [CALLBACK_STATE EXCEPT !.is_dictating = ~was_dictating]
                     /\ send_event(CALLBACK_STATE.tx, "DictateStart")
                ELSE IF ~should_dictate /\ was_dictating
                THEN /\ CALLBACK_STATE' = [CALLBACK_STATE EXCEPT !.is_dictating = FALSE]
                     /\ send_event(CALLBACK_STATE.tx, "DictateStop")
                ELSE UNCHANGED <<CALLBACK_STATE, events>>
       ELSE UNCHANGED <<CALLBACK_STATE, events>>
    /\ UNCHANGED <<manager_vars, coord_vars, event_rx, stop_flag, thread_handle,
                   watchers, spawned, EVENT_TAP, audio_vars, worker_vars>>

\* event_tap_callback for a flags-changed event, run by the run loop of
\* watcher thread w; fn and shift are the two modifier bits of the flags
event_tap_callback(w, fn, shift) ==
    /\ watchers[w].pc = "loop"
    /\ IF CALLBACK_STATE.tx # 0
       THEN LET should_dictate == fn /\ shift
                was_dictating  == CALLBACK_STATE.is_dictating
            IN  IF should_dictate /\ ~was_dictating
                THEN /\ CALLBACK_STATE' = [CALLBACK_STATE EXCEPT !.is_dictating = TRUE]
                     /\ send_event(CALLBACK_STATE.tx, "DictateStart")
                ELSE IF ~should_dictate /\ was_dictating
                THEN /\ CALLBACK_STATE' = [CALLBACK_STATE EXCEPT !.is_dictating = FALSE]
                     /\ send_event(CALLBACK_STATE.tx, "DictateStop")
                ELSE UNCHANGED <<CALLBACK_STATE, events>>
       ELSE UNCHANGED <<CALLBACK_STATE, events>>
    /\ UNCHANGED <<manager_vars, coord_vars, event_rx, stop_flag, thread_handle,
                   watchers, spawned, EVENT_TAP, audio_vars, worker_vars>>

\* run_event_tap: the loop condition finds the stop flag set and the
\* cleanup begins with *state_guard = None
WatcherCleanupState(w) ==
    /\ \/ watchers[w].pc = "loop" /\ watchers[w].stop
       \/ watchers[w].pc = "exit"
    /\ CALLBACK_STATE' = NoCallbackState
    /\ watchers' = [watchers EXCEPT ![w].pc = "cleanup_tap"]
    /\ UNCHANGED <<manager_vars, coord_vars, globe_vars, spawned, EVENT_TAP,
                   audio_vars, worker_vars>>

\* run_event_tap: cleanup, EVENT_TAP.store(null)
WatcherCleanupTap(w) ==
    /\ watchers[w].pc = "cleanup_tap"
    /\ EVENT_TAP' = 0
    /\ watchers' = [watchers EXCEPT ![w].pc = "done"]
    /\ UNCHANGED <<manager_vars, coord_vars, globe_vars, spawned, CALLBACK_STATE,
                   audio_vars, worker_vars>>

\* ------------------------------------- the watcher with its diagnostics
\* key codes the flags-changed events carry (63: the Fn key)
KeyCodes == {63}

\* CGEventGetFlags: the raw flags of an event with the two modifier bits
\* K_CG_EVENT_FLAG_MASK_SECONDARY_FN and K_CG_EVENT_FLAG_MASK_SHIFT
flags_raw(fn, shift) ==
    (IF fn THEN 8388608 ELSE 0) + (IF shift THEN 131072 ELSE 0)

\* the two kinds of tap-disabled event
DisabledKinds == {"timeout", "user_input"}

\* event_tap_callback, flags-changed branch: the diagnostics it stores when
\* the callback state is Some
record_flags(keycode, fn, shift) ==
    IF CALLBACK_STATE.tx # 0
    THEN /\ diag.flags_events < MaxCount
         /\ diag' = [diag EXCEPT !.flags_events = @ + 1,
                                 !.last_flags_raw = flags_raw(fn, shift),
                                 !.last_keycode = keycode]
    ELSE diag' = diag

\* the event the flags-changed branch has sent in this step, read off the
\* callback state it leaves: "None" when it sent nothing
sent_event ==
    IF CALLBACK_STATE'.is_dictating = CALLBACK_STATE.is_dictating THEN "None"
    ELSE IF CALLBACK_STATE'.is_dictating THEN "DictateStart"
    ELSE "DictateStop"

\* the flags-changed event of an enabled tap reaches the callback on the
\* run loop of watcher thread w
FlagsChanged(w, keycode, fn, shift) ==
    /\ w \notin tap_disabled
    /\ event_tap_callback(w, fn, shift)
    /\ record_flags(keycode, fn, shift)
    /\ held' = [held EXCEPT ![w] = fn /\ shift]
    /\ IF sent_event = "None"
       THEN emitted' = emitted
       ELSE /\ Len(emitted[CALLBACK_STATE.tx]) < MaxEmitted
            /\ emitted' = [emitted EXCEPT ![CALLBACK_STATE.tx] = Append(@, sent_event)]
    /\ UNCHANGED <<tap_disabled, buffer_vars, resample_vars, unit_vars>>

\* event_tap_callback, tap-disabled branch, on the run loop of watcher
\* thread w: the OS has disabled the tap of w and tells its callback, which
\* counts the event and enables the tap stored in EVENT_TAP
TapDisabled(w, kind) ==
    /\ watchers[w].pc = "loop"
    /\ w \notin tap_disabled
    /\ IF kind = "timeout"
       THEN /\ diag.disabled_timeout < MaxCount
            /\ diag' = [diag EXCEPT !.disabled_timeout = @ + 1]
       ELSE /\ diag.disabled_user_input < MaxCount
            /\ diag' = [diag EXCEPT !.disabled_user_input = @ + 1]
    /\ tap_disabled' = IF EVENT_TAP # 0
                       THEN (tap_disabled \cup {w}) \ {EVENT_TAP}
                       ELSE tap_disabled \cup {w}
    /\ UNCHANGED <<manager_vars, coord_vars, globe_vars, watcher_vars,
                   audio_vars, worker_vars, held, emitted, buffer_vars,
                   resample_vars, unit_vars>>

\* take_diagnostics: the counters are swapped with 0, the last flags and
\* the last key code are loaded
take_diagnostics ==
    diag' = [diag EXCEPT !.flags_events = 0,
                         !.disabled_timeout = 0,
                         !.disabled_user_input = 0]

\* the GlobeKeyDiagnostics a call of take_diagnostics returns when the
\* statics hold d
GlobeKeyDiagnostics(d) ==
    [flags_events |-> d.flags_events,
     disabled_timeout |-> d.disabled_timeout,
     disabled_user_input |-> d.disabled_user_input,
     last_flags_raw |-> d.last_flags_raw,
     last_keycode |-> IF d.last_keycode = U64_MAX THEN "None" ELSE "Some"]

\* a client calls take_diagnostics()
TakeDiagnostics ==
    /\ take_diagnostics
    /\ UNCHANGED <<manager_vars, coord_vars, globe_vars, watcher_vars,
                   audio_vars, worker_vars, tap_disabled, held, emitted,
                   buffer_vars, resample_vars, unit_vars>>

\* a client calls GlobeKeyManager::start()
GlobeStart ==
    /\ GlobeKeyManager_start
    /\ UNCHANGED <<manager_vars, coord_vars, CALLBACK_STATE, EVENT_TAP,
                   audio_vars, worker_vars, lib_vars>>

\* a client calls GlobeKeyManager::stop()
GlobeStop ==
    /\ GlobeKeyManager_stop
    /\ UNCHANGED <<manager_vars, coord_vars, spawned, CALLBACK_STATE, EVENT_TAP,
                   audio_vars, worker_vars, lib_vars>>

\* a client calls GlobeKeyManager::try_recv() and receives an event
GlobePoll ==
    /\ try_recv # "None"
    /\ events' = Tail(events)
    /\ UNCHANGED <<manager_vars, coord_vars, event_rx, stop_flag, thread_handle,
                   watcher_vars, audio_vars, worker_vars, lib_vars>>

\* the watcher thread w has ended: its taps and what it saw no longer count
WatcherEnd(w) ==
    /\ WatcherCleanupTap(w)
    /\ tap_disabled' = tap_disabled \ {w}
    /\ held' = [held EXCEPT ![w] = FALSE]
    /\ UNCHANGED <<diag, emitted, buffer_vars, resample_vars, unit_vars>>

\* ------------------------------------------------------------ audio thread
\* the cpal input callback of the stored recorder's stream appends a sample
AudioCallback(v) ==
    /\ recorder.stream
    /\ Len(recorder.samples) < MaxSamples
    /\ recorder' = [recorder EXCEPT !.samples = Append(recorder.samples, v)]
    /\ UNCHANGED <<state, enabled, transcriber, overlay, result_rx, coord_vars,
                   globe_vars, watcher_vars, audio_vars, worker_vars>>

\* --------------------------------------------- a recorder used on its own
\* the values the hardware callback delivers to a recorder used on its own
AudioVals == {1, 2}

\* AudioRecorder::new succeeded
NewRecorder == [id |-> 1, stream |-> FALSE, samples |-> <<>>]

\* outcomes of AudioRecorder::start_recording
\*   "no_device"  no input device or no input config: Err before the clear
\*   "no_stream"  build_input_stream or play failed: Err after the clear
\*   "ok"         the stream plays and is stored
StartOutcomes == {"no_device", "no_stream", "ok"}

\* AudioRecorder::start_recording
audio_start_recording(rec, outcome) ==
    IF outcome = "no_device" THEN rec
    ELSE IF outcome = "no_stream" THEN [rec EXCEPT !.samples = <<>>]
    ELSE [rec EXCEPT !.samples = <<>>, !.stream = TRUE]

\* what stop_recording returns: std::mem::take of the locked buffer
taken(rec) == rec.samples

\* a client calls AudioRecorder::new()
RecorderNew ==
    /\ recorder = NoRecorder
    /\ recorder' = NewRecorder
    /\ UNCHANGED <<state, enabled, transcriber, overlay, result_rx, coord_vars,
                   globe_vars, watcher_vars, audio_vars, worker_vars,
                   tap_vars, buffer_vars, resample_vars, unit_vars>>

\* a client calls start_recording() on its recorder
RecorderStart(outcome) ==
    /\ recorder # NoRecorder
    /\ recorder' = audio_start_recording(recorder, outcome)
    /\ appended' = IF outcome = "no_device" THEN appended ELSE <<>>
    /\ UNCHANGED <<state, enabled, transcriber, overlay, result_rx, coord_vars,
                   globe_vars, watcher_vars, audio_vars, worker_vars,
                   tap_vars, drained, resample_vars, unit_vars>>

\* the cpal input callback of the recorder's stream locks the buffer and
\* appends a sample
RecorderData(v) ==
    /\ recorder.stream
    /\ Len(recorder.samples) < MaxBuffer
    /\ recorder' = [recorder EXCEPT !.samples = Append(recorder.samples, v)]
    /\ appended' = Append(appended, v)
    /\ UNCHANGED <<state, enabled, transcriber, overlay, result_rx, coord_vars,
                   globe_vars, watcher_vars, audio_vars, worker_vars,
                   tap_vars, drained, resample_vars, unit_vars>>

\* a client calls stop_recording() on its recorder
RecorderStop ==
    /\ recorder # NoRecorder
    /\ drained' = taken(recorder)
    /\ recorder' = stop_recording(recorder)
    /\ appended' = <<>>
    /\ UNCHANGED <<state, enabled, transcriber, overlay, result_rx, coord_vars,
                   globe_vars, watcher_vars, audio_vars, worker_vars,
                   tap_vars, resample_vars, unit_vars>>

\* ------------------------------------------------------------------ f64
\* resample computes its ratio, its output length and its source positions
\* in f64. A natural number wider than the integers of the model is a
\* sequence of digits in base Digit, least significant digit first, last
\* digit not zero; zero is <<>>.
Digit == 32768

\* number of bits in one digit
DigitBits == 15

\* f64::MANTISSA_DIGITS
MANTISSA_DIGITS == 53

\* the natural number n
RECURSIVE nat(_)
nat(n) == IF n = 0 THEN <<>> ELSE <<n % Digit>> \o nat(n \div Digit)

\* the integer a natural number stands for, when it is narrow enough
RECURSIVE nat_int(_)
nat_int(a) == IF a = <<>> THEN 0 ELSE Head(a) + Digit * nat_int(Tail(a))

\* number of bits of the integer n
RECURSIVE int_bits(_)
int_bits(n) == IF n = 0 THEN 0 ELSE 1 + int_bits(n \div 2)

\* number of bits of a natural number
nat_bits(a) ==
    IF a = <<>> THEN 0 ELSE DigitBits * (Len(a) - 1) + int_bits(a[Len(a)])

\* a digit sequence without its leading zero digits
RECURSIVE nat_trim(_)
nat_trim(a) ==
    IF a = <<>> \/ a[Len(a)] # 0 THEN a ELSE nat_trim(SubSeq(a, 1, Len(a) - 1))

\* a >= b
RECURSIVE nat_ge(_, _)
nat_ge(a, b) ==
    IF Len(a) # Len(b) THEN Len(a) > Len(b)
    ELSE IF a = <<>> THEN TRUE
    ELSE IF a[Len(a)] # b[Len(b)] THEN a[Len(a)] > b[Len(b)]
    ELSE nat_ge(SubSeq(a, 1, Len(a) - 1), SubSeq(b, 1, Len(b) - 1))

\* the digits of a - b - borrow for a >= b + borrow, leading zeros kept
RECURSIVE nat_sub_digits(_, _, _)
nat_sub_digits(a, b, borrow) ==
    IF a = <<>> THEN <<>>
    ELSE LET y == (IF b = <<>> THEN 0 ELSE Head(b)) + borrow
             lower == Head(a) < y
         IN  <<(IF lower THEN Head(a) + Digit ELSE Head(a)) - y>>
             \o nat_sub_digits(Tail(a), IF b = <<>> THEN <<>> ELSE Tail(b),
                               IF lower THEN 1 ELSE 0)

\* a - b for a >= b
nat_sub(a, b) == nat_trim(nat_sub_digits(a, b, 0))

\* a * k + carry for an integer k below 2 * Digit
RECURSIVE nat_mul_small(_, _, _)
nat_mul_small(a, k, carry) ==
    IF a = <<>> THEN nat(carry)
    ELSE LET p == Head(a) * k + carry
         IN  <<p % Digit>> \o nat_mul_small(Tail(a), k, p \div Digit)

\* a * 2^s
RECURSIVE nat_shl(_, _)
nat_shl(a, s) ==
    IF a = <<>> \/ s = 0 THEN a
    ELSE IF s >= DigitBits THEN <<0>> \o nat_shl(a, s - DigitBits)
    ELSE nat_mul_small(a, 2 ^ s, 0)

\* the digits of floor(a / 2^s) for s < DigitBits, leading zeros kept
nat_shr_digits(a, s) ==
    [i \in 1..Len(a) |->
        (a[i] \div 2 ^ s)
        + (IF i < Len(a) THEN (a[i + 1] % 2 ^ s) * 2 ^ (DigitBits - s) ELSE 0)]

\* floor(a / 2^s)
RECURSIVE nat_shr(_, _)
nat_shr(a, s) ==
    IF a = <<>> \/ s = 0 THEN a
    ELSE IF s >= DigitBits THEN nat_shr(Tail(a), s - DigitBits)
    ELSE nat_trim(nat_shr_digits(a, s))

\* the low s bits of a are all zero
RECURSIVE nat_low_zero(_, _)
nat_low_zero(a, s) ==
    IF a = <<>> \/ s = 0 THEN TRUE
    ELSE IF s >= DigitBits THEN Head(a) = 0 /\ nat_low_zero(Tail(a), s - DigitBits)
    ELSE Head(a) % 2 ^ s = 0

\* a is odd
nat_odd(a) == a # <<>> /\ Head(a) % 2 = 1

\* long division, one digit: floor(r * 2^steps / d) added to q * 2^steps,
\* and the remainder, for r < d and steps a multiple of three: three bits of
\* the quotient at a time
RECURSIVE nat_divide_digit(_, _, _, _)
nat_divide_digit(r, d, q, steps) ==
    IF steps = 0 THEN [q |-> q, r |-> r]
    ELSE LET r8 == nat_mul_small(r, 8, 0)
             m  == CHOOSE k \in 0..7 :
                       /\ k = 0 \/ nat_ge(r8, nat_mul_small(d, k, 0))
                       /\ ~nat_ge(r8, nat_mul_small(d, k + 1, 0))
         IN  IF m = 0
             THEN nat_divide_digit(r8, d, 8 * q, steps - 3)
             ELSE nat_divide_digit(nat_sub(r8, nat_mul_small(d, m, 0)), d,
                                   8 * q + m, steps - 3)

\* long division: the `digits` digits of floor(r * Digit^digits / d), leading
\* zeros kept, joined to the digits q found before, and the remainder, for
\* r < d
RECURSIVE nat_divide_from(_, _, _, _)
nat_divide_from(r, d, q, digits) ==
    IF digits = 0 THEN [q |-> q, r |-> r]
    ELSE LET top == nat_divide_digit(r, d, 0, DigitBits)
         IN  IF top.r = <<>>
             THEN [q |-> [i \in 1..(digits - 1) |-> 0] \o <<top.q>> \o q,
                   r |-> <<>>]
             ELSE nat_divide_from(top.r, d, <<top.q>> \o q, digits - 1)

\* long division: the `digits` digits of floor(r * Digit^digits / d), leading
\* zeros kept, and the remainder, for r < d
nat_divide(r, d, digits) == nat_divide_from(r, d, <<>>, digits)

\* digits of quotient that hold the significand and two more bits
QuotientDigits == (MANTISSA_DIGITS + 3) \div DigitBits + 1

\* An f64 that is finite and not negative is [n, e], standing for n * 2^e
\* with n below 2^53. The value n * 2^e rounded to the nearest f64, ties to
\* even; inexact tells that n * 2^e is already below the exact value
f64_round(n, e, inexact) ==
    LET s == nat_bits(n) - MANTISSA_DIGITS IN
    IF s <= 0 THEN [n |-> n, e |-> e]
    ELSE LET hi    == nat_shr(n, s)
             guard == nat_odd(nat_shr(n, s - 1))
             rest  == inexact \/ ~nat_low_zero(n, s - 1)
             up    == guard /\ (rest \/ nat_odd(hi))
         IN  [n |-> IF up THEN nat_mul_small(hi, 1, 1) ELSE hi, e |-> e + s]

\* `n as f64` for an integer n below 2^31
as_f64(n) == [n |-> nat(n), e |-> 0]

\* the quotient r / d * 2^e for r < d, rounded to the nearest f64
f64_quotient(r, d, e) ==
    LET qr == nat_divide(r, d, QuotientDigits)
    IN  IF qr.r = <<>>
        THEN f64_round(nat_trim(qr.q), e, FALSE)
        ELSE f64_round(nat_trim(qr.q), e, TRUE)

\* a / b for positive finite a and b
f64_div(a, b) ==
    LET sh == nat_bits(a.n) - nat_bits(b.n) + 1
        e  == a.e - b.e + sh - DigitBits * QuotientDigits
    IN  IF sh < 0
        THEN f64_quotient(nat_shl(a.n, -sh), b.n, e)
        ELSE f64_quotient(a.n, nat_shl(b.n, sh), e)

\* a * b for finite a and b that are not negative, a an integer below Digit
f64_mul(a, b) ==
    f64_round(nat_trim(nat_mul_small(b.n, nat_int(a.n), 0)), a.e + b.e, FALSE)

\* x.floor() as usize
f64_floor(x) ==
    IF x.e >= 0 THEN nat_int(nat_shl(x.n, x.e)) ELSE nat_int(nat_shr(x.n, -x.e))

\* x.ceil() as usize
f64_ceil(x) ==
    IF x.e >= 0 \/ nat_low_zero(x.n, -x.e) THEN f64_floor(x) ELSE f64_floor(x) + 1

\* ------------------------------------------------------------- resample
\* An f32 sample is followed as the exact fraction n/d in lowest terms with
\* d > 0: the rounding of the f32 sample arithmetic is not followed. The
\* f64 arithmetic that decides the output length and the source indices is
\* followed bit for bit
RECURSIVE gcd(_, _)
gcd(a, b) == IF b = 0 THEN a ELSE gcd(b, a % b)

\* the absolute value
abs(n) == IF n < 0 THEN -n ELSE n

\* the fraction n/d in lowest terms
Q(n, d) ==
    LET g == gcd(abs(n), d) IN [n |-> n \div g, d |-> d \div g]

\* the samples given to resample: -1, 0, 1/2 and 1
SampleValues == {Q(-1, 1), Q(0, 1), Q(1, 2), Q(1, 1)}

\* the rising sequence 1/n, 2/n, ..., 1
Ramp(n) == [i \in 1..n |-> Q(i, n)]

\* the sample sequences given to resample: every short sequence and one
\* sequence of each greater length
SampleSeqs ==
    UNION {[1..n -> SampleValues] : n \in 0..MaxLen}
    \cup {Ramp(n) : n \in 1..MaxRamp}

\* sample rates whose quotient is not a binary fraction
OddRates == {11, 15}

\* the sample rates given to resample
Rates == 1..MaxRate \cup OddRates

\* an interpolation with the two weights exchanged
lerp_exchanged(a, b, rem, to) ==
    Q(a.n * b.d * rem + b.n * a.d * (to - rem), a.d * b.d * to)

\* resample: samples[src_idx] * (1.0 - frac) + samples[src_idx + 1] * frac
\* with frac = rem/to
lerp(a, b, rem, to) ==
    Q(a.n * b.d * (to - rem) + b.n * a.d * rem, a.d * b.d * to)

\* resample: ratio = from_rate as f64 / to_rate as f64
ratio(from_rate, to_rate) == f64_div(as_f64(from_rate), as_f64(to_rate))

\* resample: output_len = (samples.len() as f64 / ratio).ceil() as usize
output_len(len, r) == f64_ceil(f64_div(as_f64(len), r))

\* resample: src_idx = (i as f64 * ratio).floor() as usize
src_idx(i, r) == f64_floor(f64_mul(as_f64(i), r))

\* resample: the sample pushed for output index i (from 0). frac is the
\* distance of the source position i * from_rate / to_rate from src_idx
sample_at(samples, i, r, from_rate, to_rate) ==
    LET idx == src_idx(i, r)
        rem == i * from_rate - idx * to_rate
    IN  IF idx + 1 < Len(samples)
        THEN lerp(samples[idx + 1], samples[idx + 2], rem, to_rate)
        ELSE IF idx < Len(samples)
        THEN samples[idx + 1]
        ELSE Q(0, 1)

\* AudioRecorder::resample
resample(samples, from_rate, to_rate) ==
    IF samples = <<>> THEN <<>>
    ELSE LET r == ratio(from_rate, to_rate)
         IN  [i \in 1..output_len(Len(samples), r) |->
                 sample_at(samples, i - 1, r, from_rate, to_rate)]

\* a call of resample begins with some samples and rates
InitCall ==
    /\ rs_samples \in SampleSeqs
    /\ rs_from \in Rates
    /\ rs_to \in Rates
    /\ rs_output = [status |-> "pending", samples |-> <<>>]

\* the call returns
Resample ==
    /\ rs_output.status = "pending"
    /\ rs_output' = [status |-> "returned",
                     samples |-> resample(rs_samples, rs_from, rs_to)]
    /\ UNCHANGED <<manager_vars, coord_vars, globe_vars, watcher_vars,
                   audio_vars, worker_vars, tap_vars, buffer_vars,
                   rs_samples, rs_from, rs_to, unit_vars>>

\* ---------------------------------------------------------- save_to_wav
\* save_to_wav: const TARGET_SAMPLE_RATE
TARGET_SAMPLE_RATE == 16000

\* i16::MAX
I16_MAX == 32767

\* i16::MIN
I16_MIN == -32768

\* a + b
q_add(a, b) == Q(a.n * b.d + b.n * a.d, a.d * b.d)

\* a / k for an integer k > 0
q_div(a, k) == Q(a.n, a.d * k)

\* a <= b
q_le(a, b) == a.n * b.d <= b.n * a.d

\* samples.chunks(size): consecutive chunks of `size` samples, the last one
\* shorter when the length is not a multiple of size
chunks(samples, size) ==
    [j \in 1..((Len(samples) + size - 1) \div size) |->
        SubSeq(samples, (j - 1) * size + 1,
               IF j * size < Len(samples) THEN j * size ELSE Len(samples))]

\* chunk.iter().sum::<f32>()
RECURSIVE sum(_)
sum(chunk) == IF chunk = <<>> THEN Q(0, 1) ELSE q_add(Head(chunk), sum(Tail(chunk)))

\* a down-mix that keeps the first channel of every frame
mono_samples_first(samples, channels) ==
    IF channels > 1
    THEN LET cs == chunks(samples, channels) IN [j \in 1..Len(cs) |-> cs[j][1]]
    ELSE samples

\* save_to_wav: "Convert to mono if stereo"
mono_samples(samples, channels) ==
    IF channels > 1
    THEN LET cs == chunks(samples, channels)
         IN  [j \in 1..Len(cs) |-> q_div(sum(cs[j]), Len(cs[j]))]
    ELSE samples

\* save_to_wav: "Resample to 16kHz if needed"
resampled(mono, sample_rate) ==
    IF sample_rate # TARGET_SAMPLE_RATE
    THEN resample(mono, sample_rate, TARGET_SAMPLE_RATE)
    ELSE mono

\* sample.clamp(-1.0, 1.0)
clamp(sample) ==
    IF q_le(sample, Q(-1, 1)) THEN Q(-1, 1)
    ELSE IF q_le(Q(1, 1), sample) THEN Q(1, 1)
    ELSE sample

\* `x as i16` for a fraction x: the fractional part is dropped, the result
\* saturates at the ends of the i16 range
as_i16(x) ==
    LET t == IF x.n >= 0 THEN x.n \div x.d ELSE -((-x.n) \div x.d)
    IN  IF t > I16_MAX THEN I16_MAX ELSE IF t < I16_MIN THEN I16_MIN ELSE t

\* save_to_wav: (sample.clamp(-1.0, 1.0) * i16::MAX as f32) as i16
amplitude(sample) ==
    LET c == clamp(sample) IN as_i16(Q(c.n * I16_MAX, c.d))

\* save_to_wav: the WavSpec of the file
WavSpec == [channels |-> 1, sample_rate |-> TARGET_SAMPLE_RATE,
            bits_per_sample |-> 16, sample_format |-> "Int"]

\* the values of the samples given to save_to_wav: some of them outside
\* [-1, 1]
WavValues == {Q(-2, 1), Q(1, 2), Q(1, 1)}

\* the sample sequences given to save_to_wav: every short sequence and two
\* long ones
WavSeqs ==
    UNION {[1..n -> WavValues] : n \in 0..MaxWav} \cup {Ramp(21), Ramp(42)}

\* the channel counts of the recorder
WavChannels == 1..MaxChannels

\* the sample rates of the recorder
DeviceRates == {8000, 16000, 22400, 44100, 48000}

\* a call of save_to_wav begins on a recorder with some samples
InitSave ==
    /\ wav_samples \in WavSeqs
    /\ wav_channels \in WavChannels
    /\ wav_sample_rate \in DeviceRates
    /\ wav_mono = <<>>
    /\ wav_file = [status |-> "pending", spec |-> <<>>, samples |-> <<>>]

\* save_to_wav: writer.write_sample(amplitude) for each sample of output
amplitudes(samples) == [i \in 1..Len(samples) |-> amplitude(samples[i])]

\* the call writes the file and returns Ok
SaveToWav ==
    /\ wav_file.status = "pending"
    /\ wav_mono' = mono_samples(wav_samples, wav_channels)
    /\ wav_file' =
          [status |-> "written", spec |-> WavSpec,
           samples |-> amplitudes(resampled(wav_mono', wav_sample_rate))]
    /\ UNCHANGED <<manager_vars, coord_vars, globe_vars, watcher_vars,
                   audio_vars, worker_vars, tap_vars, buffer_vars,
                   resample_vars, wav_samples, wav_channels, wav_sample_rate,
                   inject_vars, window_vars, download_vars, more_vars>>

\* ---------------------------------------------------------- inject_text
\* text_injection.rs: const K_AX_ERROR_SUCCESS
K_AX_ERROR_SUCCESS == 0

\* kAXErrorCannotComplete, an error code of the accessibility API
K_AX_ERROR_CANNOT_COMPLETE == -25204

\* a call of the accessibility API as the model records it
AxCall(fn, arg) == [fn |-> fn, arg |-> arg]

\* an inject_text that asks for the permission before it looks at the text
inject_text_checks_first(text, world) ==
    IF ~world.trusted
    THEN [result |-> "Err: Accessibility permission required",
          calls |-> <<AxCall("AXIsProcessTrusted", <<>>)>>]
    ELSE [result |-> "Ok", calls |-> <<AxCall("AXIsProcessTrusted", <<>>)>>]

\* text_injection::inject_text: its result and the calls of the
\* accessibility API it makes, in order
inject_text(text, world) ==
    LET trusted  == <<AxCall("AXIsProcessTrusted", <<>>)>>
        create   == trusted \o <<AxCall("AXUIElementCreateSystemWide", <<>>)>>
        copy     == create
                    \o <<AxCall("AXUIElementCopyAttributeValue", "AXFocusedUIElement"),
                         AxCall("CFRelease", "system_wide")>>
        set      == copy
                    \o <<AxCall("AXUIElementSetAttributeValue", text),
                         AxCall("CFRelease", "focused_element")>>
    IN  IF text = <<>>
        THEN [result |-> "Ok", calls |-> <<>>]
        ELSE IF ~world.trusted
        THEN [result |-> "Err: Accessibility permission required", calls |-> trusted]
        ELSE IF ~world.system_wide
        THEN [result |-> "Err: Failed to create system-wide element", calls |-> create]
        ELSE IF world.copy_error # K_AX_ERROR_SUCCESS \/ ~world.focused
        THEN [result |-> "Err: No focused element found", calls |-> copy]
        ELSE IF world.set_error # K_AX_ERROR_SUCCESS
        THEN [result |-> "Err: Failed to inject text via AXSelectedText", calls |-> set]
        ELSE [result |-> "Ok", calls |-> set]

\* the texts given to inject_text
Texts == {<<>>, <<"a">>, <<"a", "b">>}

\* what the accessibility API may answer: AXIsProcessTrusted, whether
\* AXUIElementCreateSystemWide returns an element, the error code of
\* AXUIElementCopyAttributeValue and whether it stores an element, and the
\* error code of AXUIElementSetAttributeValue
Worlds == [trusted : BOOLEAN, system_wide : BOOLEAN,
           copy_error : {K_AX_ERROR_SUCCESS, K_AX_ERROR_CANNOT_COMPLETE},
           focused : BOOLEAN,
           set_error : {K_AX_ERROR_SUCCESS, K_AX_ERROR_CANNOT_COMPLETE}]

\* a call of inject_text begins
InitInject ==
    /\ ax_text \in Texts
    /\ ax_world \in Worlds
    /\ ax_calls = <<>>
    /\ ax_result = "pending"

\* the call returns
InjectText ==
    /\ ax_result = "pending"
    /\ ax_result' = inject_text(ax_text, ax_world).result
    /\ ax_calls' = inject_text(ax_text, ax_world).calls
    /\ UNCHANGED <<manager_vars, coord_vars, globe_vars, watcher_vars,
                   audio_vars, worker_vars, tap_vars, buffer_vars,
                   resample_vars, wav_vars, ax_text, ax_world, window_vars,
                   download_vars, more_vars>>

\* ------------------------------------------------------- model download
\* char::is_ascii_digit
AsciiDigits == <<"0", "1", "2", "3", "4", "5", "6", "7", "8", "9">>

\* char::is_ascii_digit
is_ascii_digit(c) == \E d \in 1..Len(AsciiDigits) : AsciiDigits[d] = c

\* the value of a digit
digit_value(c) == (CHOOSE d \in 1..Len(AsciiDigits) : AsciiDigits[d] = c) - 1

\* the value of a string of digits, 0 for the empty one
RECURSIVE digits_value(_)
digits_value(str) ==
    IF str = <<>> THEN 0
    ELSE digits_value(SubSeq(str, 1, Len(str) - 1)) * 10 + digit_value(str[Len(str)])

\* str::rfind, as a position from 1, 0 for None
rfind(line, c) ==
    IF \E i \in 1..Len(line) : line[i] = c
    THEN CHOOSE i \in 1..Len(line) :
            line[i] = c /\ \A j \in (i + 1)..Len(line) : line[j] # c
    ELSE 0

\* extract_percent: the while loop that moves start back over digits and
\* dots, beginning at from
RECURSIVE number_start(_, _)
number_start(line, from) ==
    IF from > 1 /\ (is_ascii_digit(line[from - 1]) \/ line[from - 1] = ".")
    THEN number_start(line, from - 1)
    ELSE from

\* None of Option<f64>
NoPercent == [some |-> FALSE, whole |-> 0, fraction |-> <<>>]

\* str::parse::<f64> on a string of digits and dots: a number when it has
\* a digit and at most one dot; its whole part and its fraction digits
parse_f64(str) ==
    LET dots == {i \in 1..Len(str) : str[i] = "."}
    IN  IF Cardinality(dots) > 1 \/ Cardinality(dots) = Len(str)
        THEN NoPercent
        ELSE IF dots = {}
        THEN [some |-> TRUE, whole |-> digits_value(str), fraction |-> <<>>]
        ELSE LET d == CHOOSE i \in dots : TRUE
             IN  [some |-> TRUE,
                  whole |-> digits_value(SubSeq(str, 1, d - 1)),
                  fraction |-> SubSeq(str, d + 1, Len(str))]

\* extract_percent
extract_percent(line) ==
    LET percent_index == rfind(line, "%")
        first == number_start(line, percent_index)
    IN  IF percent_index = 0 THEN NoPercent
        ELSE IF first = percent_index THEN NoPercent
        ELSE parse_f64(SubSeq(line, first, percent_index - 1))

\* percent.floor() as i32, for a percent that is not negative
floor_i32(percent) == percent.whole

\* progress.set_progress(percent) and progress.set_message("... {}%")
Report(percent) == [percent |-> percent, whole |-> floor_i32(percent)]

\* download_model_with_progress: the body of "for ch in chunk.chars()";
\* the locals after it (line, last_percent) and the report it makes, if any
feed(locals, ch) ==
    IF ch = "\r" \/ ch = "\n"
    THEN LET percent == extract_percent(locals.line)
         IN  IF percent.some /\ floor_i32(percent) # locals.last_percent
             THEN [locals |-> [locals EXCEPT !.line = <<>>,
                                             !.last_percent = floor_i32(percent)],
                   reports |-> <<Report(percent)>>]
             ELSE [locals |-> [locals EXCEPT !.line = <<>>], reports |-> <<>>]
    ELSE [locals |-> [locals EXCEPT !.line = Append(@, ch)], reports |-> <<>>]

\* download_model_with_progress: the report made after the loop for what
\* is left in line
last_line(locals) ==
    LET percent == extract_percent(locals.line)
    IN  IF percent.some THEN <<Report(percent)>> ELSE <<>>

\* the characters curl writes to its standard error
StderrChars == {"1", ".", "%", "\r", "\n"}

\* outcomes of fs::create_dir_all
DirOutcomes == {"ok", "failed"}

\* outcomes of Command::spawn, with the to_str().unwrap() before it
SpawnOutcomes == {"panic", "failed", "ok"}

\* what a client's call of the download leaves alone
DownloadFrame ==
    UNCHANGED <<manager_vars, coord_vars, globe_vars, watcher_vars,
                audio_vars, worker_vars, tap_vars, buffer_vars,
                resample_vars, wav_vars, inject_vars, window_vars, more_vars>>

\* download_model_with_window up to window.run_modal(): create_dir_all,
\* then the thread is spawned. The directory of a file that exists can be
\* created
DownloadStart(dir) ==
    /\ dl_pc = "start"
    /\ IF dir = "failed"
       THEN /\ ~dl_file
            /\ dl_pc' = "returned"
            /\ dl_result' = "Err: Failed to create models directory"
            /\ UNCHANGED dl_thread
       ELSE /\ dl_pc' = "run_modal"
            /\ dl_thread' = "spawn"
            /\ UNCHANGED dl_result
    /\ UNCHANGED <<dl_progress, dl_reports, dl_curl, dl_file, dl_msg,
                   dl_modal_stopped>>
    /\ DownloadFrame

\* download_model_with_progress: Command::new("curl")...spawn()
DownloadSpawn(outcome) ==
    /\ dl_thread = "spawn"
    /\ IF outcome = "panic"
       THEN /\ dl_thread' = "panicked"
            /\ UNCHANGED <<dl_progress, dl_curl>>
       ELSE IF outcome = "failed"
       THEN /\ dl_thread' = "send"
            /\ dl_progress' = [dl_progress EXCEPT
                                 !.result = "Err: Failed to start download"]
            /\ UNCHANGED dl_curl
       ELSE /\ dl_thread' = "read"
            /\ dl_curl' = [NoCurl EXCEPT !.state = "running"]
            /\ UNCHANGED dl_progress
    /\ UNCHANGED <<dl_pc, dl_result, dl_reports, dl_file, dl_msg, dl_modal_stopped>>
    /\ DownloadFrame

\* download_model_with_progress: stderr.read returns one character of
\* what curl wrote, and the loop body handles it
DownloadRead(ch) ==
    /\ dl_thread = "read"
    /\ dl_progress.read < MaxStream
    /\ LET fed == feed(dl_progress, ch) IN
       /\ dl_progress' = [fed.locals EXCEPT !.read = @ + 1]
       /\ dl_reports' = dl_reports \o fed.reports
    /\ UNCHANGED <<dl_pc, dl_result, dl_thread, dl_curl, dl_file, dl_msg,
                   dl_modal_stopped>>
    /\ DownloadFrame

\* download_model_with_progress: stderr.read fails, and "?" returns the
\* error; the Child is dropped, which neither kills nor awaits curl
DownloadReadError ==
    /\ dl_thread = "read"
    /\ dl_thread' = "send"
    /\ dl_progress' = [dl_progress EXCEPT
                         !.result = "Err: Failed to read download progress"]
    /\ UNCHANGED <<dl_pc, dl_result, dl_reports, dl_curl, dl_file, dl_msg,
                   dl_modal_stopped>>
    /\ DownloadFrame

\* download_model_with_progress: stderr.read returns 0 once curl has
\* exited, the loop ends and the rest of line is reported
DownloadEndOfFile ==
    /\ dl_thread = "read"
    /\ dl_curl.state = "exited"
    /\ dl_thread' = "wait"
    /\ dl_reports' = dl_reports \o last_line(dl_progress)
    /\ UNCHANGED <<dl_pc, dl_result, dl_progress, dl_curl, dl_file, dl_msg,
                   dl_modal_stopped>>
    /\ DownloadFrame

\* download_model_with_progress: child.wait() and the test of the status
DownloadWait(waited) ==
    /\ dl_thread = "wait"
    /\ dl_curl.state = "exited"
    /\ dl_thread' = "send"
    /\ dl_progress' = [dl_progress EXCEPT !.result =
          IF ~waited THEN "Err: Download failed to finish"
          ELSE IF dl_curl.success THEN "Ok"
          ELSE "Err: Download failed with status"]
    /\ UNCHANGED <<dl_pc, dl_result, dl_reports, dl_curl, dl_file, dl_msg,
                   dl_modal_stopped>>
    /\ DownloadFrame

\* the closure of the download thread: tx.send(result)
DownloadSend ==
    /\ dl_thread = "send"
    /\ dl_thread' = "stop_modal"
    /\ dl_msg' = dl_progress.result
    /\ UNCHANGED <<dl_pc, dl_result, dl_progress, dl_reports, dl_curl, dl_file,
                   dl_modal_stopped>>
    /\ DownloadFrame

\* the closure of the download thread: handle.stop_modal()
DownloadStopModal ==
    /\ dl_thread = "stop_modal"
    /\ dl_thread' = "done"
    /\ dl_modal_stopped' = TRUE
    /\ UNCHANGED <<dl_pc, dl_result, dl_progress, dl_reports, dl_curl, dl_file,
                   dl_msg>>
    /\ DownloadFrame

\* download_model_with_window after window.run_modal() has returned:
\* rx.recv(), remove_file on an error, and the return
DownloadReturn ==
    /\ dl_pc = "run_modal"
    /\ dl_modal_stopped
    /\ dl_msg # "none" \/ dl_thread \in {"done", "panicked"}
    /\ LET result == IF dl_msg # "none" THEN dl_msg
                     ELSE "Err: Download interrupted"
       IN  /\ dl_result' = result
           /\ dl_file' = IF result # "Ok" THEN FALSE ELSE dl_file
    /\ dl_pc' = "returned"
    /\ dl_msg' = "none"
    /\ UNCHANGED <<dl_thread, dl_progress, dl_reports, dl_curl, dl_modal_stopped>>
    /\ DownloadFrame

\* curl creates the file named by -o when the first data arrive
CurlOpensFile ==
    /\ dl_curl.state = "running"
    /\ ~dl_curl.opened
    /\ dl_curl' = [dl_curl EXCEPT !.opened = TRUE]
    /\ dl_file' = TRUE
    /\ UNCHANGED <<dl_pc, dl_result, dl_thread, dl_progress, dl_reports, dl_msg,
                   dl_modal_stopped>>
    /\ DownloadFrame

\* curl exits: with success once it has written the file, or with a
\* failure at any time
CurlExits(success) ==
    /\ dl_curl.state = "running"
    /\ success => dl_curl.opened
    /\ dl_curl' = [dl_curl EXCEPT !.state = "exited", !.success = success]
    /\ UNCHANGED <<dl_pc, dl_result, dl_thread, dl_progress, dl_reports, dl_file,
                   dl_msg, dl_modal_stopped>>
    /\ DownloadFrame

\* a call of download_model_with_window begins, with or without a file
\* left at the model path by an earlier download
InitDownloadCall ==
    /\ dl_pc = "start"
    /\ dl_result = "none"
    /\ dl_thread = "none"
    /\ dl_progress = NoProgress
    /\ dl_reports = <<>>
    /\ dl_curl = NoCurl
    /\ dl_file \in BOOLEAN
    /\ dl_msg = "none"
    /\ dl_modal_stopped = FALSE

\* ----------------------------------------------------------- worker thread
\* outcomes of WhisperTranscriber::transcribe
\*   "panic"     to_str().unwrap() on a non-UTF-8 path
\*   "no_model"  WhisperTranscriber::new() of the worker found no model
\*   "no_spawn"  Command::output failed
\*   "run"       the external tool ran
TranscribeOutcomes == {"panic", "no_model", "no_spawn", "run"}

\* the characters the external tool may write to its standard output
Stdouts == {<<>>, <<" ", "\n">>, <<"a">>, <<" ", "a", "\n">>}

\* what the external tool reports once it ran: output.status.success() and
\* output.stdout
ToolOutcomes == [success : BOOLEAN, stdout : Stdouts]

\* char::is_whitespace on the characters of the model
Whitespace == {" ", "\n"}

\* str::trim_start
RECURSIVE trim_start(_)
trim_start(str) ==
    IF str # <<>> /\ Head(str) \in Whitespace THEN trim_start(Tail(str)) ELSE str

\* str::trim_end
RECURSIVE trim_end(_)
trim_end(str) ==
    IF str # <<>> /\ str[Len(str)] \in Whitespace
    THEN trim_end(SubSeq(str, 1, Len(str) - 1))
    ELSE str

\* str::trim
trim(str) == trim_end(trim_start(str))

\* a transcribe that returns whatever the tool wrote when it exits with
\* success
tool_result_any_text(s, a, tool) ==
    IF tool.success
    THEN Transcribed(s, a, trim(tool.stdout))
    ELSE Error(s, "Transcription failed")

\* transcribe, once the tool has exited, for worker s and the audio of
\* session a
tool_result(s, a, tool) ==
    IF tool.success
    THEN LET transcription == trim(tool.stdout)
         IN  IF transcription = <<>>
             THEN Error(s, "No speech detected")
             ELSE Transcribed(s, a, transcription)
    ELSE Error(s, "Transcription failed")

\* the closure spawned by stop_and_transcribe: transcriber.transcribe
WorkerTranscribe(s, outcome, tool) ==
    /\ workers[s].pc = "transcribe"
    /\ LET f == files[TempPath(s)] IN
       workers' = [workers EXCEPT ![s] =
          IF outcome = "panic"
          THEN [NoWorker EXCEPT !.pc = "panicked"]
          ELSE IF outcome = "no_model"
          THEN [NoWorker EXCEPT !.pc = "remove",
                                !.result = Error(s, "No Whisper model found")]
          ELSE IF outcome = "no_spawn"
          THEN [NoWorker EXCEPT !.pc = "remove",
                                !.result = Error(s, "whisper-cli failed")]
          ELSE IF f.owner = 0
          THEN [NoWorker EXCEPT !.pc = "remove",
                                !.result = Error(s, "Transcription failed")]
          ELSE [NoWorker EXCEPT !.pc = "remove",
                                !.result = tool_result(s, f.owner, tool)]]
    /\ UNCHANGED <<manager_vars, coord_vars, globe_vars, watcher_vars,
                   audio_vars, files, result_msg, injections>>

\* the closure spawned by stop_and_transcribe: std::fs::remove_file
WorkerRemoveFile(s) ==
    /\ workers[s].pc = "remove"
    /\ workers' = [workers EXCEPT ![s].pc = "send"]
    /\ files' = [files EXCEPT ![TempPath(s)] = NoFile]
    /\ UNCHANGED <<manager_vars, coord_vars, globe_vars, watcher_vars,
                   audio_vars, result_msg, injections>>

\* the closure spawned by stop_and_transcribe: tx.send(result), after which
\* the thread ends and the sender is dropped
WorkerSend(s) ==
    /\ workers[s].pc = "send"
    /\ result_msg' = IF result_rx = s THEN workers[s].result ELSE result_msg
    /\ workers' = [workers EXCEPT ![s] = [NoWorker EXCEPT !.pc = "done"]]
    /\ UNCHANGED <<manager_vars, coord_vars, globe_vars, watcher_vars,
                   audio_vars, files, injections>>

\* ------------------------------------------------------------ specification
Next ==
    \/ CallStart /\ UNCHANGED lib_vars
    \/ CallStop /\ UNCHANGED lib_vars
    \/ \E b \in BOOLEAN : CallSetEnabled(b) /\ UNCHANGED lib_vars
    \/ DropManager /\ UNCHANGED lib_vars
    \/ UpdateDisabled
    \/ UpdateReady /\ UNCHANGED lib_vars
    \/ \E outcome \in CaptureOutcomes, created \in BOOLEAN :
          UpdateDictateStart(outcome, created) /\ UNCHANGED lib_vars
    \/ \E save \in SaveOutcomes : UpdateDictateStop(save) /\ UNCHANGED lib_vars
    \/ \E injected \in BOOLEAN : UpdateResult(injected) /\ UNCHANGED lib_vars
    \/ \E w \in Watchers : WatcherInit(w) /\ UNCHANGED lib_vars
    \/ \E w \in Watchers, outcome \in TapOutcomes :
          WatcherInstallTap(w, outcome) /\ UNCHANGED lib_vars
    \/ \E w \in Watchers, fn \in BOOLEAN, shift \in BOOLEAN :
          event_tap_callback(w, fn, shift) /\ UNCHANGED lib_vars
    \/ \E w \in Watchers : WatcherCleanupState(w) /\ UNCHANGED lib_vars
    \/ \E w \in Watchers : WatcherCleanupTap(w) /\ UNCHANGED lib_vars
    \/ \E v \in SampleVals : AudioCallback(v) /\ UNCHANGED lib_vars
    \/ \E s \in Sessions, outcome \in TranscribeOutcomes, tool \in ToolOutcomes :
          WorkerTranscribe(s, outcome, tool) /\ UNCHANGED lib_vars
    \/ \E s \in Sessions : WorkerRemoveFile(s) /\ UNCHANGED lib_vars
    \/ \E s \in Sessions : WorkerSend(s) /\ UNCHANGED lib_vars

Spec == Init /\ [][Next]_vars

\* a step of update() that takes an event out of the channel
UpdateEvent ==
    \/ UpdateReady
    \/ \E outcome \in CaptureOutcomes, created \in BOOLEAN :
          UpdateDictateStart(outcome, created)
    \/ \E save \in SaveOutcomes : UpdateDictateStop(save)

\* the step of update() that finds no event and looks for a result
UpdateEnd == \E injected \in BOOLEAN : UpdateResult(injected)

\* the ways a worker of the fair program comes to an end: it panics, it sends
\* an error, or the tool runs and the worker sends what the tool wrote
LiveOutcomes == {"panic", "no_spawn", "run"}

\* the tool of the fair program exits with success and a line of text
LiveToolOutcomes == {[success |-> TRUE, stdout |-> <<" ", "a", "\n">>]}

\* the steps of the worker thread of session s
WorkerStep(s) ==
    \/ \E outcome \in LiveOutcomes, tool \in LiveToolOutcomes :
          WorkerTranscribe(s, outcome, tool)
    \/ WorkerRemoveFile(s)
    \/ WorkerSend(s)

\* the steps of the program whose worker threads end in one of LiveOutcomes
NextLive ==
    \/ CallStart /\ UNCHANGED lib_vars
    \/ CallStop /\ UNCHANGED lib_vars
    \/ \E b \in BOOLEAN : CallSetEnabled(b) /\ UNCHANGED lib_vars
    \/ DropManager /\ UNCHANGED lib_vars
    \/ UpdateDisabled
    \/ UpdateReady /\ UNCHANGED lib_vars
    \/ \E outcome \in CaptureOutcomes, created \in BOOLEAN :
          UpdateDictateStart(outcome, created) /\ UNCHANGED lib_vars
    \/ \E save \in SaveOutcomes : UpdateDictateStop(save) /\ UNCHANGED lib_vars
    \/ \E injected \in BOOLEAN : UpdateResult(injected) /\ UNCHANGED lib_vars
    \/ \E w \in Watchers : WatcherInit(w) /\ UNCHANGED lib_vars
    \/ \E w \in Watchers, outcome \in TapOutcomes :
          WatcherInstallTap(w, outcome) /\ UNCHANGED lib_vars
    \/ \E w \in Watchers, fn \in BOOLEAN, shift \in BOOLEAN :
          event_tap_callback(w, fn, shift) /\ UNCHANGED lib_vars
    \/ \E w \in Watchers : WatcherCleanupState(w) /\ UNCHANGED lib_vars
    \/ \E w \in Watchers : WatcherCleanupTap(w) /\ UNCHANGED lib_vars
    \/ \E v \in SampleVals : AudioCallback(v) /\ UNCHANGED lib_vars
    \/ \E s \in Sessions, outcome \in LiveOutcomes, tool \in LiveToolOutcomes :
          WorkerTranscribe(s, outcome, tool) /\ UNCHANGED lib_vars
    \/ \E s \in Sessions : WorkerRemoveFile(s) /\ UNCHANGED lib_vars
    \/ \E s \in Sessions : WorkerSend(s) /\ UNCHANGED lib_vars

\* The program with a coordinating thread that keeps calling update() and
\* with worker threads that the scheduler runs and whose external tool
\* comes to an end. The steps of update() are weakly fair: the thread is
\* never kept from its next step. The event loop of update() is far faster
\* than key events arrive, so every call finds the channel empty in the end
\* and returns: the thread is outside update() again and again
SpecLive ==
    /\ Init
    /\ [][NextLive]_vars
    /\ WF_vars((UpdateEvent \/ UpdateEnd) /\ UNCHANGED lib_vars)
    /\ []<>(upc = "idle")
    /\ WF_vars(\E s \in Sessions : WorkerStep(s) /\ UNCHANGED lib_vars)

\* The watcher used on its own: a client that starts, stops and polls a
\* GlobeKeyManager and reads the diagnostics, the watcher threads, and the
\* OS delivering flags-changed and tap-disabled events
NextWatcher ==
    \/ GlobeStart
    \/ GlobeStop
    \/ GlobePoll
    \/ TakeDiagnostics
    \/ \E w \in Watchers : WatcherInit(w) /\ UNCHANGED lib_vars
    \/ \E w \in Watchers, outcome \in TapOutcomes :
          WatcherInstallTap(w, outcome) /\ UNCHANGED lib_vars
    \/ \E w \in Watchers, keycode \in KeyCodes, fn \in BOOLEAN, shift \in BOOLEAN :
          FlagsChanged(w, keycode, fn, shift)
    \/ \E w \in Watchers, kind \in DisabledKinds : TapDisabled(w, kind)
    \/ \E w \in Watchers : WatcherCleanupState(w) /\ UNCHANGED lib_vars
    \/ \E w \in Watchers : WatcherEnd(w)

SpecWatcher == Init /\ [][NextWatcher]_vars

\* An AudioRecorder used on its own: a client that creates it, starts and
\* stops it in any order, and the hardware callback of its stream
NextAudio ==
    \/ RecorderNew
    \/ \E outcome \in StartOutcomes : RecorderStart(outcome)
    \/ \E v \in AudioVals : RecorderData(v)
    \/ RecorderStop

SpecAudio == Init /\ [][NextAudio]_vars

\* One call of AudioRecorder::resample on some samples and rates
InitResample ==
    /\ InitManager
    /\ InitTap
    /\ InitBuffer
    /\ InitCall
    /\ InitNoUnit

NextResample == Resample

SpecResample == InitResample /\ [][NextResample]_vars

\* One call of AudioRecorder::save_to_wav on some recorder and samples
InitWav ==
    /\ InitManager
    /\ InitTap
    /\ InitBuffer
    /\ InitNoCall
    /\ InitSave
    /\ InitNoInject
    /\ InitOverlay
    /\ InitNoDownload
    /\ InitNoMore

NextWav == SaveToWav

SpecWav == InitWav /\ [][NextWav]_vars

\* One call of text_injection::inject_text on some text, with some answers
\* of the accessibility API
InitInjection ==
    /\ InitManager
    /\ InitTap
    /\ InitBuffer
    /\ InitNoCall
    /\ InitNoWav
    /\ InitInject
    /\ InitOverlay
    /\ InitNoDownload
    /\ InitNoMore

NextInjection == InjectText

SpecInjection == InitInjection /\ [][NextInjection]_vars

\* what a client's call of the overlay leaves alone
OverlayCallFrame ==
    UNCHANGED <<state, enabled, transcriber, recorder, result_rx, coord_vars,
                globe_vars, watcher_vars, audio_vars, worker_vars, tap_vars,
                buffer_vars, resample_vars, wav_vars, inject_vars,
                download_vars, more_vars>>

\* a client calls show()
CallOverlayShow(outcome) == RecordingOverlay_show(outcome) /\ OverlayCallFrame

\* a client calls show_with_mode(mode)
CallOverlayShowWithMode(mode, outcome) ==
    RecordingOverlay_show_with_mode(mode, outcome) /\ OverlayCallFrame

\* a client calls set_mode(mode)
CallOverlaySetMode(mode) == RecordingOverlay_set_mode(mode) /\ OverlayCallFrame

\* a client calls hide()
CallOverlayHide == RecordingOverlay_hide /\ OverlayCallFrame

\* A RecordingOverlay used on its own: a client that calls show,
\* show_with_mode, set_mode and hide in any order
InitOverlayAlone ==
    /\ InitManager
    /\ InitTap
    /\ InitBuffer
    /\ InitNoCall
    /\ InitNoWav
    /\ InitNoInject
    /\ InitOverlay
    /\ InitNoDownload
    /\ InitNoMore

NextOverlay ==
    \/ \E outcome \in WindowOutcomes : CallOverlayShow(outcome)
    \/ \E mode \in OverlayModes, outcome \in WindowOutcomes :
          CallOverlayShowWithMode(mode, outcome)
    \/ \E mode \in OverlayModes : CallOverlaySetMode(mode)
    \/ CallOverlayHide

SpecOverlay == InitOverlayAlone /\ [][NextOverlay]_vars

\* One call of transcription::download_model_with_window: the calling
\* thread, the download thread and the curl process
InitDownload ==
    /\ InitManager
    /\ InitTap
    /\ InitBuffer
    /\ InitNoCall
    /\ InitNoWav
    /\ InitNoInject
    /\ InitOverlay
    /\ InitDownloadCall
    /\ InitNoMore

NextDownload ==
    \/ \E dir \in DirOutcomes : DownloadStart(dir)
    \/ \E outcome \in SpawnOutcomes : DownloadSpawn(outcome)
    \/ \E ch \in StderrChars : DownloadRead(ch)
    \/ DownloadReadError
    \/ DownloadEndOfFile
    \/ \E waited \in BOOLEAN : DownloadWait(waited)
    \/ DownloadSend
    \/ DownloadStopModal
    \/ DownloadReturn
    \/ CurlOpensFile
    \/ \E success \in BOOLEAN : CurlExits(success)

SpecDownload == InitDownload /\ [][NextDownload]_vars

\* ------------------------------------------------------------------ claims
\* the step in which update() takes event ev out of the event channel
Consumed(ev) ==
    /\ InUpdate
    /\ try_recv = ev
    /\ upc' = "events"
    /\ events' = Tail(events)

\* the step in which update(), after the event loop, acts on what the
\* result channel holds
PollStep ==
    /\ InUpdate /\ alive' /\ enabled'
    /\ try_recv = "None"
    /\ upc' = "idle"
    /\ event_rx' = event_rx
    /\ <<state, overlay, result_rx, injections>>' # <<state, overlay, result_rx, injections>>

\* C1: a Start event processed in Idle whose capture opens moves the state
\* to Recording and opens exactly one capture stream, held by the stored
\* recorder; a Start event processed in Recording changes nothing in the
\* orchestrator (no recorder is created or started, the state stays
\* Recording).
C1_StartOnce ==
    [][Consumed("DictateStart") =>
         /\ state = "Idle" /\ sessions' # sessions =>
              /\ state' = "Recording"
              /\ sessions' = sessions + 1
              /\ recorder' = [id |-> sessions', stream |-> TRUE, samples |-> <<>>]
         /\ state = "Recording" =>
              UNCHANGED <<state, recorder, sessions, overlay, result_rx,
                          files, workers, result_msg>>]_vars

\* C1 witness: the first Start of a session was processed, the state is
\* Recording and the one capture of the session is open
C1_Witness ==
    /\ state = "Recording"
    /\ upc = "events"
    /\ sessions = 1
    /\ recorder = [id |-> 1, stream |-> TRUE, samples |-> <<>>]

\* C2: a Stop event processed in Recording with an empty sample buffer ends
\* in Idle with the overlay hidden; no file is written, the result channel
\* is left as it was and no worker is spawned.
C2_EmptyStop ==
    [][Consumed("DictateStop") /\ state = "Recording" /\ recorder.samples = <<>> =>
         /\ state' = "Idle"
         /\ ~overlay'.window
         /\ UNCHANGED <<files, result_rx, result_msg, workers>>]_vars

\* C2 witness: the recorder of session 1 was drained empty (it stays stored
\* with its stream closed), the state is Idle and no worker exists
C2_Witness ==
    /\ state = "Idle"
    /\ upc = "events"
    /\ recorder = [id |-> 1, stream |-> FALSE, samples |-> <<>>]
    /\ workers[1].pc = "none"
    /\ ~overlay.window

\* the session whose recording a Stop event ends
Ending == recorder.id

\* save_to_wav of the ending session left its complete file at the path
Saved == files'[TempPath(Ending)] = [owner |-> Ending, complete |-> TRUE]

\* a Stop event is processed in Recording with at least one sample captured
StopWithSamples ==
    /\ Consumed("DictateStop")
    /\ state = "Recording"
    /\ recorder.samples # <<>>

\* exactly the worker of the ending session is spawned and a fresh, empty
\* result channel bound to it is installed
SpawnedOne ==
    /\ workers' = [workers EXCEPT ![Ending] = [pc |-> "transcribe", result |-> NoMessage]]
    /\ workers[Ending].pc = "none"
    /\ result_rx' = Ending
    /\ result_msg' = NoMessage

\* C3 as stated: a Stop event processed in Recording with at least one
\* sample always ends the step in Transcribing with exactly one worker
\* spawned and a fresh result channel installed.
C3_AlwaysTranscribing ==
    [][StopWithSamples => state' = "Transcribing" /\ SpawnedOne]_vars

\* C3 amended: a Stop event processed in Recording with at least one sample
\* ends the step in Transcribing with exactly one worker spawned and a
\* fresh result channel installed when save_to_wav succeeds; when
\* save_to_wav fails it ends the step in Idle with the overlay hidden, no
\* worker spawned and the result channel left as it was. It never stays in
\* Recording.
C3_TranscribingIfSaved ==
    [][StopWithSamples =>
         IF Saved
         THEN state' = "Transcribing" /\ SpawnedOne
         ELSE /\ state' = "Idle"
              /\ ~overlay'.window
              /\ UNCHANGED <<workers, result_rx, result_msg>>]_vars

\* C3 witness: the Stop of session 1 was processed with samples and a saved
\* file; the state is Transcribing, worker 1 is spawned, channel 1 installed
C3_Witness ==
    /\ state = "Transcribing"
    /\ upc = "events"
    /\ sessions = 1
    /\ workers[1].pc = "transcribe"
    /\ result_rx = 1
    /\ files[TempPath(1)] = [owner |-> 1, complete |-> TRUE]

\* C4: whenever the orchestrator is in Idle, no temporary audio file of a
\* concluded session exists (after success, after a transcription error,
\* after a failed save, after a worker that died).
C4_FileAbsentInIdle ==
    state = "Idle" => \A p \in Paths : files[p] = NoFile

\* C5: in Transcribing, when update() finds Error(message) in the result
\* channel, or finds the channel disconnected without a message, it hides
\* the overlay, returns to Idle, drops the result channel and does not
\* invoke text injection; the orchestrator state after the step is the same
\* function of the state before it in both cases.
C5_ErrorAndDisconnect ==
    [][PollStep /\ state = "Transcribing" /\ result_rx # 0
         /\ result_try_recv \in {"Error", "Disconnected"} =>
         /\ state' = "Idle"
         /\ overlay' = [window |-> FALSE, mode |-> overlay.mode]
         /\ result_rx' = 0
         /\ result_msg' = NoMessage
         /\ UNCHANGED <<injections, recorder, enabled, transcriber>>]_vars

\* C5 witness: the worker of session 1 died without a message and the
\* orchestrator has recovered: Idle, overlay hidden, channel dropped,
\* nothing injected
C5_Witness ==
    /\ alive
    /\ workers[1].pc = "panicked"
    /\ sessions = 1
    /\ state = "Idle"
    /\ result_rx = 0
    /\ ~overlay.window
    /\ injections = <<>>

\* C6: when a Transcribed(text) result is consumed, text injection is
\* invoked exactly once, with exactly the text of the message, at a moment
\* when the overlay is already hidden, and the step ends in Idle with the
\* result channel dropped, whatever text injection returns.
C6_InjectAfterHide ==
    [][PollStep /\ state = "Transcribing" /\ result_rx # 0
         /\ result_try_recv = "Transcribed" =>
         /\ injections' = Append(injections,
               [text |-> [worker |-> result_msg.worker, audio |-> result_msg.audio,
                      chars |-> result_msg.text],
                overlay_window |-> FALSE])
         /\ ~overlay'.window
         /\ state' = "Idle"
         /\ result_rx' = 0
         /\ result_msg' = NoMessage]_vars

\* C6 witness: the text of worker 1 was injected once with the overlay
\* hidden, the state is Idle and the channel is dropped
C6_Witness ==
    /\ injections = <<[text |-> [worker |-> 1, audio |-> 1, chars |-> <<"a">>],
                       overlay_window |-> FALSE]>>
    /\ state = "Idle"
    /\ result_rx = 0
    /\ upc = "idle"
    /\ workers[1].pc = "done"

\* C7: stop() (also when run by Drop) ends with the state Idle, the overlay
\* hidden, the stop flag of the watcher thread set and the event receiver
\* dropped; and as long as no event receiver is stored (until start() is
\* called again) the state is Idle, the overlay is hidden and try_recv
\* yields no event.
C7_StopTeardown ==
    /\ [](event_rx = 0 => state = "Idle" /\ ~overlay.window /\ try_recv = "None")
    /\ [][stop_flag # 0 /\ stop_flag' = 0 =>
            /\ state' = "Idle"
            /\ ~overlay'.window
            /\ event_rx' = 0
            /\ events' = <<>>
            /\ watchers'[stop_flag].stop]_vars

\* C7 witness: stop() was called while Transcribing: the receiver of
\* session 1 is still stored, the state is Idle, the overlay is hidden and
\* no event receiver exists
C7_Witness ==
    /\ alive
    /\ event_rx = 0
    /\ spawned = 1
    /\ state = "Idle"
    /\ result_rx = 1
    /\ workers[1].pc = "transcribe"
    /\ ~overlay.window

\* C8: text injection is only ever invoked in Transcribing and with a text
\* produced by the worker spawned for the current session, received on the
\* channel installed for that session; the text of a worker abandoned by
\* stop() is never injected.
C8_OnlyCurrentWorker ==
    [][Len(injections') > Len(injections) =>
         /\ state = "Transcribing"
         /\ result_rx = sessions
         /\ injections'[Len(injections')].text.worker = sessions]_vars

\* C8 witness: worker 1 was abandoned by stop() and holds a text that it is
\* about to send, and the only text injected is that of worker 2
C8_Witness ==
    /\ workers[1].pc = "send"
    /\ workers[1].result.kind = "Transcribed"
    /\ Len(injections) = 1
    /\ injections[1].text.worker = 2

\* a worker thread that has not finished
Live(s) == workers[s].pc \in {"transcribe", "remove", "send"}

\* C9: a worker never reads or deletes the temporary file written by
\* another session, and no two live workers share a temporary file path.
C9_WorkerIsolation ==
    /\ [](\A s, t \in Sessions :
            s # t /\ Live(s) /\ Live(t) => TempPath(s) # TempPath(t))
    /\ [](\A s \in Sessions : workers[s].result.audio \in {0, s})
    /\ [][\A s \in Sessions :
            workers[s].pc = "remove" /\ workers'[s].pc = "send" =>
               files[TempPath(s)].owner \in {0, s}]_vars

\* C10: a capture is started only when no previously started capture is
\* still open and only when the state is not Transcribing.
C10_OneCapture ==
    [][sessions' = sessions + 1 =>
         ~recorder.stream /\ state # "Transcribing"]_vars

\* C11: for a watcher that is the only one of the process, Start is sent
\* exactly when an event shows the chord down after the last event showed it
\* up (or no event was seen yet), Stop exactly when an event shows it up
\* after the last showed it down, and nothing is sent otherwise; on every
\* channel the Start/Stop events alternate and begin with Start.
C11_EdgesAlternate ==
    /\ [](\A c \in Watchers : \A i \in 1..Len(emitted[c]) :
            emitted[c][i] = IF i % 2 = 1 THEN "DictateStart" ELSE "DictateStop")
    /\ [][\A w \in Watchers, keycode \in KeyCodes, fn \in BOOLEAN, shift \in BOOLEAN :
            FlagsChanged(w, keycode, fn, shift) /\ spawned = 1 =>
                emitted'[w] =
                    IF ~held[w] /\ (fn /\ shift) THEN Append(emitted[w], "DictateStart")
                    ELSE IF held[w] /\ ~(fn /\ shift) THEN Append(emitted[w], "DictateStop")
                    ELSE emitted[w]]_vars

\* C11 witness: the only watcher saw the chord go down, up and down again
\* and sent Start, Stop, Start
C11_Witness ==
    /\ spawned = 1
    /\ watchers[1].pc = "loop"
    /\ held[1]
    /\ emitted[1] = <<"DictateStart", "DictateStop", "DictateStart">>

\* the orchestrator's own state: what a watcher event may or may not change
Orchestrator ==
    <<state, recorder, sessions, overlay, result_rx, files, workers,
      result_msg, injections>>

\* C12: a Start taken out of the channel outside Idle and a Stop taken out
\* outside Recording change nothing in the orchestrator, and every Start or
\* Stop in the orchestrator's channel was sent by the one watcher thread
\* that channel was made for, also after stop() and start().
C12_SingleProducer ==
    /\ [][Consumed("DictateStart") /\ state # "Idle" => UNCHANGED Orchestrator]_vars
    /\ [][Consumed("DictateStop") /\ state # "Recording" => UNCHANGED Orchestrator]_vars
    /\ [][\A w \in Watchers, fn \in BOOLEAN, shift \in BOOLEAN :
            event_tap_callback(w, fn, shift) /\ events' # events => w = event_rx]_vars

C14_StopJoins ==
    /\ [](\A w \in Watchers : watchers[w].stop => watchers[w].pc = "done")
    /\ [][\A w \in Watchers : watchers[w].stop => watchers'[w] = watchers[w]]_vars

\* the watcher threads that were spawned and not told to stop
Started == {w \in Watchers : watchers[w].pc # "none" /\ ~watchers[w].stop}

\* the watcher threads that exist: spawned and not ended
Existing == {w \in Watchers : watchers[w].pc \notin {"none", "done"}}

\* C15: a thread is spawned and the channel replaced only by a start() on a
\* manager that is not started; a started manager holds the channel, flag
\* and handle of its latest thread; a stop() leaves a manager on which a
\* further stop() finds nothing to do (no flag, no handle, no channel,
\* every thread already told to stop); and at most one watcher thread
\* exists at any time.
C15_OneThread ==
    /\ [](Cardinality(Started) <= 1)
    /\ [](event_rx # 0 => /\ event_rx = spawned
                          /\ stop_flag = spawned
                          /\ thread_handle = spawned
                          /\ Started = {spawned})
    /\ [](event_rx = 0 => /\ stop_flag = 0
                          /\ thread_handle = 0
                          /\ events = <<>>
                          /\ Started = {})
    /\ [][spawned' # spawned => event_rx = 0 /\ spawned' = spawned + 1]_vars
    /\ [][event_rx # 0 /\ event_rx' # event_rx => event_rx' = 0]_vars
    /\ [](Cardinality(Existing) <= 1)

\* C16: a running watcher that was not told to stop never stays with its
\* tap disabled: the callback that receives the tap-disabled event enables
\* the tap of the watcher it runs for, sends nothing and leaves the
\* held/not-held state alone.
C16_TapReenabled ==
    /\ [](\A w \in Watchers :
            watchers[w].pc = "loop" /\ ~watchers[w].stop => w \notin tap_disabled)
    /\ [][\A w \in Watchers, kind \in DisabledKinds :
            TapDisabled(w, kind) => UNCHANGED <<CALLBACK_STATE, events, emitted>>]_vars

\* C17: Ready is sent by the thread of the channel, in the step that
\* leaves the tap installed, and a Start or Stop is in the orchestrator's
\* channel only when the thread of that channel is past that step.
C17_ReadyFirst ==
    /\ [][events' # events /\ Len(events') > Len(events)
            /\ events'[Len(events')] = "Ready" =>
               /\ watchers[event_rx].pc = "create"
               /\ watchers'[event_rx].pc = "loop"
               /\ EVENT_TAP' = event_rx]_vars
    /\ [](events # <<>> /\ Head(events) # "Ready" =>
             watchers[event_rx].pc \notin {"init", "create"})

\* C18: after a call of take_diagnostics every diagnostic holds its initial
\* value, so that a second call with no event in between reports the
\* initial values.
C18_ResetOnRead ==
    [][TakeDiagnostics =>
         /\ diag'.flags_events = NoDiagnostics.flags_events
         /\ diag'.disabled_timeout = NoDiagnostics.disabled_timeout
         /\ diag'.disabled_user_input = NoDiagnostics.disabled_user_input
         /\ diag'.last_flags_raw = NoDiagnostics.last_flags_raw]_vars

\* C19: the buffer always holds exactly the samples the hardware callback
\* delivered since the last start_recording that cleared it, in the order
\* of delivery; stop_recording returns them and leaves the buffer empty and
\* the stream closed; while the stream is closed nothing is appended, so a
\* second stop_recording returns the empty sequence.
C19_DrainExact ==
    /\ [](recorder.samples = appended)
    /\ [](~recorder.stream => recorder.samples = <<>>)
    /\ [][RecorderStop =>
            /\ drained' = appended
            /\ recorder'.samples = <<>>
            /\ ~recorder'.stream]_vars
    /\ [][RecorderStop /\ ~recorder.stream => drained' = <<>>]_vars
    /\ [][~recorder.stream /\ ~recorder'.stream =>
            recorder'.samples = recorder.samples]_vars

\* C19 witness: a second recording of the same recorder is under way with
\* one sample buffered, after a first recording whose two samples were
\* returned in the order of delivery
C19_Witness ==
    /\ drained = <<2, 1>>
    /\ recorder.stream
    /\ recorder.samples = <<2>>

CeilDiv(a, b) == (a + b - 1) \div b

\* the sample the linear interpolation places at output index i (from 0):
\* between the source indices floor(i * from / to) and the next one, or the
\* last sample at the end
Interpolated(samples, i, from_rate, to_rate) ==
    LET idx == (i * from_rate) \div to_rate
        rem == (i * from_rate) % to_rate
    IN  IF idx + 1 < Len(samples)
        THEN lerp(samples[idx + 1], samples[idx + 2], rem, to_rate)
        ELSE samples[idx + 1]

\* C21: resample of the empty sequence returns the empty sequence. For a
\* non-empty sequence the result has ceil(len * to / from) samples, no
\* output index has a source index past the end of the input, and every
\* output sample is the interpolation between the source indices
\* floor(i * from / to) and the next one, or the last sample at the end.
C21_LengthAndSource ==
    rs_output.status = "returned" =>
        /\ rs_samples = <<>> => rs_output.samples = <<>>
        /\ rs_samples # <<>> =>
            /\ Len(rs_output.samples) = CeilDiv(Len(rs_samples) * rs_to, rs_from)
            /\ \A i \in 0..(Len(rs_output.samples) - 1) :
                /\ src_idx(i, ratio(rs_from, rs_to)) < Len(rs_samples)
                /\ (i * rs_from) \div rs_to < Len(rs_samples)
                /\ rs_output.samples[i + 1]
                       = Interpolated(rs_samples, i, rs_from, rs_to)

\* the sum of samples[lo..hi]
RECURSIVE SumRange(_, _, _)
SumRange(samples, lo, hi) ==
    IF lo > hi THEN Q(0, 1)
    ELSE q_add(samples[hi], SumRange(samples, lo, hi - 1))

\* the frames in an interleaved buffer of whole frames; 0 when the length is
\* not a multiple of the channel count
Frames(samples, channels) ==
    IF Len(samples) % channels = 0 THEN Len(samples) \div channels ELSE 0

\* C22: the down-mix of an interleaved buffer of N > 1 channels and length
\* N * k has exactly k mono samples, and mono sample j is the arithmetic
\* mean of the input samples j * N .. j * N + N - 1; a single-channel buffer
\* passes through unchanged.
C22_DownMixMean ==
    wav_file.status = "written" =>
        /\ wav_channels = 1 => wav_mono = wav_samples
        /\ wav_channels > 1 /\ Len(wav_samples) % wav_channels = 0 =>
            /\ Len(wav_mono) = Frames(wav_samples, wav_channels)
            /\ \A j \in 0..(Len(wav_mono) - 1) :
                  wav_mono[j + 1] =
                      q_div(SumRange(wav_samples, j * wav_channels + 1,
                                     j * wav_channels + wav_channels),
                            wav_channels)

\* C22 witness: a stereo buffer of two frames was written, and its two mono
\* samples are the means 3/4 and -1/2
C22_Witness ==
    /\ wav_file.status = "written"
    /\ wav_channels = 2
    /\ wav_samples = <<Q(1, 2), Q(1, 1), Q(-2, 1), Q(1, 1)>>
    /\ wav_mono = <<Q(3, 4), Q(-1, 2)>>

\* C23: save_to_wav down-mixes first and resamples second: for C * k
\* interleaved samples of a recorder with C channels at rate R the file is
\* single-channel, 16 kHz, 16-bit integer, holds exactly ceil(k * 16000 / R)
\* samples, and every sample is the clamped input scaled to the signed
\* 16-bit range.
C23_FileLength ==
    wav_file.status = "written" /\ Len(wav_samples) % wav_channels = 0 =>
        /\ wav_file.spec = WavSpec
        /\ Len(wav_file.samples)
              = CeilDiv(Frames(wav_samples, wav_channels) * TARGET_SAMPLE_RATE,
                        wav_sample_rate)
        /\ \A i \in 1..Len(wav_file.samples) :
              /\ wav_file.samples[i] >= -I16_MAX
              /\ wav_file.samples[i] <= I16_MAX

\* the tool's output has no character other than whitespace
Blank(stdout) == \A i \in 1..Len(stdout) : stdout[i] \in {" ", "\n"}

\* C24: transcribe never returns success with empty text. When the tool
\* exits with success and its output is blank the worker's result is the
\* error "No speech detected"; a non-zero exit and a spawn failure are
\* errors too. So every Transcribed result, in a worker's hands or in the
\* result channel, carries a non-empty text, and inject_text is never called
\* with the empty string.
C24_NeverEmptyText ==
    /\ [](/\ \A s \in Sessions :
               workers[s].result.kind = "Transcribed"
                   => workers[s].result.text # <<>>
          /\ result_msg.kind = "Transcribed" => result_msg.text # <<>>
          /\ \A i \in 1..Len(injections) : injections[i].text.chars # <<>>)
    /\ [][\A s \in Sessions, tool \in ToolOutcomes :
            /\ WorkerTranscribe(s, "run", tool) /\ files[TempPath(s)].owner # 0 =>
                /\ tool.success /\ Blank(tool.stdout) =>
                      workers'[s].result = Error(s, "No speech detected")
                /\ ~tool.success => workers'[s].result.kind = "Error"
                /\ tool.success /\ ~Blank(tool.stdout) =>
                      workers'[s].result.kind = "Transcribed"
            /\ WorkerTranscribe(s, "no_spawn", tool) =>
                  workers'[s].result.kind = "Error"]_vars

\* C24 witness: the tool of session 1 wrote nothing but whitespace, and the
\* error "No speech detected" waits in the result channel of the
\* orchestrator, which is still Transcribing
C24_Witness ==
    /\ result_msg = Error(1, "No speech detected")
    /\ result_rx = 1
    /\ state = "Transcribing"
    /\ workers[1].pc = "done"
    /\ injections = <<>>

\* the calls that query or modify an accessibility element
ElementCalls == {"AXUIElementCreateSystemWide", "AXUIElementCopyAttributeValue",
                 "AXUIElementSetAttributeValue"}

\* C25: inject_text on the empty string returns Ok without asking for the
\* accessibility permission and without a call on any UI element; on a
\* non-empty text without the accessibility grant it returns the
\* permission error, and no accessibility element was queried or modified.
C25_EmptyAndUntrusted ==
    ax_result # "pending" /\ ax_result # "none" =>
        /\ ax_text = <<>> => ax_result = "Ok" /\ ax_calls = <<>>
        /\ ax_text # <<>> /\ ~ax_world.trusted =>
            /\ ax_result = "Err: Accessibility permission required"
            /\ \A i \in 1..Len(ax_calls) : ax_calls[i].fn \notin ElementCalls
        /\ ax_text # <<>> =>
              ax_calls # <<>> /\ ax_calls[1].fn = "AXIsProcessTrusted"

\* C25 witness: a call with a non-empty text and no grant returned the
\* permission error after the one call of AXIsProcessTrusted
C25_Witness ==
    /\ ax_text = <<"a">>
    /\ ~ax_world.trusted
    /\ ax_result = "Err: Accessibility permission required"
    /\ Len(ax_calls) = 1

\* C26: a session whose recording started never fails because the model is
\* missing: with a transcriber the manager found available, no worker ends
\* with the error of a missing model and no such error reaches the manager.
C26_NoMissingModelMidSession ==
    transcriber.available =>
        /\ \A s \in Sessions : workers[s].result.text # "No Whisper model found"
        /\ result_msg.text # "No Whisper model found"

\* the orchestrator leaves Transcribing by one of the calls that run stop()
StopCalled == CallStop \/ CallSetEnabled(FALSE) \/ DropManager

\* C27: there is no timeout, and none is needed. With update() called again
\* and again and a worker that sends its result or ends, Transcribing leads
\* to Idle; update() never waits for the worker (inside update() a step of
\* it is always possible, and the step that finds no event and no result
\* returns with the state as it was); and while the worker has neither sent
\* nor ended the orchestrator leaves Transcribing only by stop().
C27_TranscribingLeadsToIdle ==
    /\ (state = "Transcribing") ~> (state = "Idle")
    /\ [](InUpdate => ENABLED (UpdateEvent \/ UpdateEnd))
    /\ [][UpdateEnd /\ state = "Transcribing" /\ result_try_recv = "Empty" =>
            upc' = "idle" /\ state' = "Transcribing"]_vars
    /\ [][state = "Transcribing" /\ result_try_recv = "Empty"
            /\ state' # "Transcribing" => StopCalled]_vars

\* C27 witness: the orchestrator is back in Idle after update() received
\* the result of the first session's worker, and the worker has ended
C27_Witness ==
    /\ state = "Idle"
    /\ upc = "idle"
    /\ alive /\ enabled
    /\ sessions = 1
    /\ workers[1].pc = "done"
    /\ result_rx = 0
    /\ Len(injections) = 1

\* the NSWindows that are on screen
OpenWindows == {i \in 1..Len(ns_windows) : ns_windows[i].open}

\* C28: whatever the order of show, show_with_mode, set_mode and hide, at
\* most one window exists; is_visible() is true exactly when a window
\* exists (the one the overlay holds); show and show_with_mode on a visible
\* overlay only recolor its window; set_mode on a hidden overlay leaves it
\* hidden and creates nothing; after hide() is_visible() is false and no
\* window exists.
C28_OneWindow ==
    /\ [](Cardinality(OpenWindows) <= 1)
    /\ [](is_visible <=> OpenWindows # {})
    /\ [](is_visible => OpenWindows = {ov_window})
    /\ [](overlay.window <=> is_visible)
    /\ [][\A mode \in OverlayModes, outcome \in WindowOutcomes :
            is_visible /\ CallOverlayShowWithMode(mode, outcome) =>
                /\ ov_window' = ov_window
                /\ ns_windows' = [ns_windows EXCEPT
                                    ![ov_window].color = color_for_mode(mode)]]_vars
    /\ [][\A outcome \in WindowOutcomes :
            is_visible /\ CallOverlayShow(outcome) =>
                /\ ov_window' = ov_window
                /\ ns_windows' = [ns_windows EXCEPT ![ov_window].color = "red"]]_vars
    /\ [][\A mode \in OverlayModes :
            ~is_visible /\ CallOverlaySetMode(mode) =>
                ~is_visible' /\ ns_windows' = ns_windows]_vars
    /\ [][CallOverlayHide => ~is_visible' /\ OpenWindows' = {}]_vars

\* C28 witness: the overlay holds its second window, recolored to orange by
\* set_mode, after the first one was hidden
C28_Witness ==
    /\ ov_window = 2
    /\ ns_windows = <<[open |-> FALSE, color |-> "red"],
                      [open |-> TRUE, color |-> "orange"]>>
    /\ overlay = [window |-> TRUE, mode |-> "Transcribing"]

\* C29: progress is reported on whole-percent changes only: two reports in
\* a row never carry the same whole percent, the report for the last
\* output line included.
C29_WholePercentChanges ==
    \A i \in 1..(Len(dl_reports) - 1) :
        dl_reports[i].whole # dl_reports[i + 1].whole

\* C30: once download_model_with_window has returned an error no file
\* exists at the model path, and once it has returned Ok the file is there.
C30_NoFileAfterError ==
    dl_pc = "returned" =>
        IF dl_result = "Ok" THEN dl_file ELSE ~dl_file

\* -------------------------------------------------------- language hint
\* A string is the sequence of its characters. Option<String>: None
NoCode == [some |-> FALSE, code |-> <<>>]

\* Some(code)
SomeCode(code) == [some |-> TRUE, code |-> code]

\* "auto"
Auto == <<"a", "u", "t", "o">>

\* preferred_language_from_env: let candidates
LocaleKeys == <<"LC_ALL", "LC_CTYPE", "LANG">>

\* the ASCII upper-case letters and, at the same places, the lower-case ones
UpperCase == <<"A", "B", "C", "D", "E", "F", "G", "H", "I", "J", "K", "L", "M",
               "N", "O", "P", "Q", "R", "S", "T", "U", "V", "W", "X", "Y", "Z">>
LowerCase == <<"a", "b", "c", "d", "e", "f", "g", "h", "i", "j", "k", "l", "m",
               "n", "o", "p", "q", "r", "s", "t", "u", "v", "w", "x", "y", "z">>

\* char::to_lowercase on the characters of the model
to_lower(c) ==
    IF \E i \in 1..Len(UpperCase) : UpperCase[i] = c
    THEN LowerCase[CHOOSE i \in 1..Len(UpperCase) : UpperCase[i] = c]
    ELSE c

\* str::to_lowercase
to_lowercase(str) == [i \in 1..Len(str) |-> to_lower(str[i])]

\* str::eq_ignore_ascii_case
eq_ignore_ascii_case(a, b) == to_lowercase(a) = to_lowercase(b)

\* str.split(pattern).next(): the part of str before its first character
\* that the pattern matches, the whole of str when there is none
split_next(str, pattern) ==
    LET hits == {i \in 1..Len(str) : str[i] \in pattern}
    IN  IF hits = {} THEN str
        ELSE SubSeq(str, 1, (CHOOSE i \in hits : \A j \in hits : i <= j) - 1)

\* parse_language_code
parse_language_code(value) ==
    LET trimmed == trim(split_next(value, {"."})) IN
    IF trimmed = <<>> THEN NoCode
    ELSE LET primary == trim(split_next(trimmed, {"_", "-"}))
         IN  IF primary = <<>> \/ eq_ignore_ascii_case(primary, <<"C">>)
             THEN NoCode
             ELSE SomeCode(to_lowercase(primary))

\* preferred_language_from_env: the code of the first key, in the order of
\* candidates, that is set and whose value parses to a code
RECURSIVE preferred_language_from_env(_, _)
preferred_language_from_env(env, keys) ==
    IF keys = <<>> THEN NoCode
    ELSE IF env[Head(keys)] # NotSet /\ parse_language_code(env[Head(keys)]).some
    THEN parse_language_code(env[Head(keys)])
    ELSE preferred_language_from_env(env, Tail(keys))

\* preferred_language_from_system
preferred_language_from_system(languages) ==
    IF Len(languages) = 0 THEN NoCode ELSE parse_language_code(languages[1])

\* preferred_language
preferred_language(env, languages) ==
    IF preferred_language_from_env(env, LocaleKeys).some
    THEN preferred_language_from_env(env, LocaleKeys)
    ELSE preferred_language_from_system(languages)

\* transcribe: let language = preferred_language().unwrap_or_else(|| "auto")
language(env, languages) ==
    IF preferred_language(env, languages).some
    THEN preferred_language(env, languages).code
    ELSE Auto

\* the languages of the settings window that the model follows
SettingLanguages == {Auto, <<"j", "a">>}

\* values of the environment's locale variables
LocaleValues ==
    {NotSet, <<>>, <<"C">>, <<"c", ".", "U">>, <<" ", "_", "x">>,
     <<"f", "r", "_", "F", "R", ".", "U">>, <<"E", "N", "-", "u", "s">>}

\* lists of the OS's preferred languages
SystemLanguages == {<<>>, <<<<"d", "e", "-", "D", "E">>, <<"e", "n">>>>, <<<<"C">>, <<"e", "n">>>>}

\* what the language unit leaves alone
LanguageFrame ==
    UNCHANGED <<manager_vars, coord_vars, globe_vars, watcher_vars,
                audio_vars, worker_vars, tap_vars, buffer_vars,
                resample_vars, wav_vars, inject_vars, window_vars,
                download_vars, settings_vars, sleep_vars>>

\* a call of transcribe begins in some environment, with some settings
InitLanguageCall ==
    /\ lang_setting \in SettingLanguages
    /\ lang_env \in [{"LC_ALL", "LC_CTYPE", "LANG"} -> LocaleValues]
    /\ lang_system \in SystemLanguages
    /\ lang_hint = <<>>

\* transcribe computes the language it gives to the tool after -l
TranscribeLanguage ==
    /\ lang_hint = <<>>
    /\ lang_hint' = language(lang_env, lang_system)
    /\ UNCHANGED <<lang_setting, lang_env, lang_system>>
    /\ LanguageFrame

\* One call of transcribe, up to the language hint
InitLanguage ==
    /\ InitManager
    /\ InitTap
    /\ InitBuffer
    /\ InitNoCall
    /\ InitNoWav
    /\ InitNoInject
    /\ InitOverlay
    /\ InitNoDownload
    /\ InitNoSettings
    /\ InitNoSleep
    /\ InitLanguageCall

NextLanguage == TranscribeLanguage

SpecLanguage == InitLanguage /\ [][NextLanguage]_vars

\* the language code that value yields, NoCode when it yields none: the
\* part before the first "." and before the first "_" or "-", in lower
\* case, unless it is empty or "c"
YieldedCode(value) ==
    LET before_dot == trim(split_next(value, {"."}))
        primary    == to_lowercase(trim(split_next(before_dot, {"_", "-"})))
    IN  IF primary = <<>> \/ primary = <<"c">> THEN NoCode ELSE SomeCode(primary)

\* the hint the priority order asks for
ExpectedHint ==
    LET yielding == {i \in 1..Len(LocaleKeys) :
                        /\ lang_env[LocaleKeys[i]] # NotSet
                        /\ YieldedCode(lang_env[LocaleKeys[i]]).some}
        first    == CHOOSE i \in yielding : \A j \in yielding : i <= j
    IN  IF lang_setting # Auto THEN lang_setting
        ELSE IF yielding # {} THEN YieldedCode(lang_env[LocaleKeys[first]]).code
        ELSE IF lang_system # <<>> /\ YieldedCode(lang_system[1]).some
        THEN YieldedCode(lang_system[1]).code
        ELSE Auto

\* C31: the language hint given to the tool is the explicit override (the
\* language chosen in the settings) if one is set, else the code of the
\* first of LC_ALL, LC_CTYPE, LANG that yields one, else the code of the
\* first entry of the OS preferred-language list, else "auto".
C31_PriorityOrder == lang_hint # <<>> => lang_hint = ExpectedHint

\* ------------------------------------------------------------- settings
\* impl Default for SleepPreventionSettings
SleepPreventionSettings_default == [enabled |-> TRUE]

\* impl Default for SpeechToTextSettings
SpeechToTextSettings_default ==
    [language |-> Auto, vocabulary_words |-> <<"Claude", "Anthropic">>]

\* #[derive(Default)] for AppSettings
AppSettings_default ==
    [sleep_prevention |-> SleepPreventionSettings_default,
     speech_to_text |-> SpeechToTextSettings_default]

\* fn default_true
default_true == TRUE

\* fn default_language
default_language == Auto

\* #[serde(default)] on a Vec<String>: Vec::default()
Vec_default == <<>>

\* the value of a key, or what serde puts in its place when it is missing
or_default(key, default) == IF key.present THEN key.value ELSE default

\* Deserialize for SleepPreventionSettings
SleepPreventionSettings_deserialize(object) ==
    [enabled |-> or_default(object.enabled, default_true)]

\* Deserialize for SpeechToTextSettings
SpeechToTextSettings_deserialize(object) ==
    [language |-> or_default(object.language, default_language),
     vocabulary_words |-> or_default(object.vocabulary_words, Vec_default)]

\* Deserialize for AppSettings: serde_json::from_str on a JSON object
AppSettings_deserialize(object) ==
    [sleep_prevention |->
         IF object.sleep_prevention.present
         THEN SleepPreventionSettings_deserialize(object.sleep_prevention.value)
         ELSE SleepPreventionSettings_default,
     speech_to_text |->
         IF object.speech_to_text.present
         THEN SpeechToTextSettings_deserialize(object.speech_to_text.value)
         ELSE SpeechToTextSettings_default]

\* a key that is missing or has one of the values
Key(values) == {Absent} \cup {Present(v) : v \in values}

\* the JSON objects given to the deserializer
JsonObjects ==
    [sleep_prevention : Key([enabled : Key(BOOLEAN)]),
     speech_to_text :
         Key([language : Key({Auto, <<"f", "r">>}),
              vocabulary_words : Key({<<>>, <<"Rust">>, <<"Claude", "Rust">>})])]

\* what the settings unit leaves alone
SettingsFrame ==
    UNCHANGED <<manager_vars, coord_vars, globe_vars, watcher_vars,
                audio_vars, worker_vars, tap_vars, buffer_vars,
                resample_vars, wav_vars, inject_vars, window_vars,
                download_vars, lang_vars, sleep_vars>>

\* some JSON object is about to be deserialized
InitSettingsCall ==
    /\ set_json \in JsonObjects
    /\ set_result = Absent

\* serde_json::from_str::<AppSettings> returns
Deserialize ==
    /\ ~set_result.present
    /\ set_result' = Present(AppSettings_deserialize(set_json))
    /\ UNCHANGED set_json
    /\ SettingsFrame

\* One deserialization of the settings
InitSettings ==
    /\ InitManager
    /\ InitTap
    /\ InitBuffer
    /\ InitNoCall
    /\ InitNoWav
    /\ InitNoInject
    /\ InitOverlay
    /\ InitNoDownload
    /\ InitNoLanguage
    /\ InitNoSleep
    /\ InitSettingsCall

NextSettings == Deserialize

SpecSettings == InitSettings /\ [][NextSettings]_vars

\* the words of a vocabulary
Words(vocabulary) == {vocabulary[i] : i \in 1..Len(vocabulary)}

\* C32: deserializing settings from JSON that omits a section or a field
\* yields the default for everything omitted (sleep prevention enabled,
\* language "auto", a vocabulary containing "Claude") and keeps every value
\* that is present; the all-default settings have sleep prevention enabled
\* and language "auto".
C32_PartialDefaults ==
    /\ AppSettings_default.sleep_prevention.enabled
    /\ AppSettings_default.speech_to_text.language = Auto
    /\ set_result.present =>
        LET sleep  == set_json.sleep_prevention
            speech == set_json.speech_to_text
            got    == set_result.value
        IN  /\ IF sleep.present /\ sleep.value.enabled.present
               THEN got.sleep_prevention.enabled = sleep.value.enabled.value
               ELSE got.sleep_prevention.enabled
            /\ IF speech.present /\ speech.value.language.present
               THEN got.speech_to_text.language = speech.value.language.value
               ELSE got.speech_to_text.language = Auto
            /\ IF speech.present /\ speech.value.vocabulary_words.present
               THEN got.speech_to_text.vocabulary_words
                        = speech.value.vocabulary_words.value
               ELSE "Claude" \in Words(got.speech_to_text.vocabulary_words)

\* the watcher threads inside CFRunLoopRunInMode, their tap installed
Running == {w \in Watchers : watchers[w].pc = "loop"}

\* C33: the process-global registry (CALLBACK_STATE and EVENT_TAP) belongs
\* to the running watcher: while a watcher thread that was not told to stop
\* runs with its tap installed the registry holds its sender and its tap,
\* and with no watcher thread left it is empty; the teardown of a stopped
\* watcher neither clears nor overwrites the registration of another
\* watcher; and the callback of a watcher other than the current one sends
\* nothing into the current channel.
C33_RegistryOfRunningWatcher ==
    /\ [](\A w \in Running :
            ~watchers[w].stop => CALLBACK_STATE.tx = w /\ EVENT_TAP = w)
    /\ [](Existing = {} => CALLBACK_STATE = NoCallbackState /\ EVENT_TAP = 0)
    /\ [][\A w \in Watchers :
            watchers[w].stop /\ watchers'[w] # watchers[w] =>
                /\ CALLBACK_STATE.tx \notin {0, w} => CALLBACK_STATE' = CALLBACK_STATE
                /\ EVENT_TAP \notin {0, w} => EVENT_TAP' = EVENT_TAP]_vars
    /\ [][\A w \in Watchers, keycode \in KeyCodes, fn \in BOOLEAN, shift \in BOOLEAN :
            FlagsChanged(w, keycode, fn, shift) /\ w # event_rx =>
                events' = events]_vars

\* the overlay shows the state: visible exactly in Recording and in
\* Transcribing, and then in the mode of the state
InSync ==
    /\ overlay.window <=> state \in {"Recording", "Transcribing"}
    /\ overlay.window => overlay.mode = state

\* a Start is handled and the window it asks for is not created
WindowNotCreated ==
    \E outcome \in CaptureOutcomes : UpdateDictateStart(outcome, FALSE)

\* C34: the overlay stays in sync with the state of the orchestrator. As
\* long as no window creation fails, after every step of update() and
\* after stop(), set_enabled() and the drop the overlay is visible exactly
\* when the state is Recording or Transcribing and its mode is that state;
\* and whatever happened before, the overlay is hidden in Idle, where
\* every failure path ends.
C34_OverlayInSync ==
    /\ InSync
    /\ [][InSync /\ ~WindowNotCreated => InSync']_vars
    /\ [](state = "Idle" => ~overlay.window)
    /\ [][\A save \in SaveOutcomes :
            UpdateDictateStop(save) /\ state = "Recording"
                /\ state' # "Transcribing" => ~overlay'.window]_vars

\* C34 witness: the second session is being transcribed, its overlay
\* visible in the Transcribing mode, after the first one ended in Idle
C34_Witness ==
    /\ InSync
    /\ state = "Transcribing"
    /\ overlay = [window |-> TRUE, mode |-> "Transcribing"]
    /\ result_rx = 2
    /\ upc = "idle"

C36_ResourceOfState ==
    /\ state = "Recording" => recorder.id # 0
    /\ state = "Transcribing" => result_rx # 0 /\ result_expected

\* C36 witness: the second session is recording with its recorder stored,
\* while the receiver of the first, abandoned by stop(), is still stored
C36_Witness ==
    /\ state = "Recording"
    /\ recorder.id = 2 /\ recorder.stream
    /\ result_rx = 1

\* C37: whenever the state is Idle no capture stream is open, so that the
\* hardware callback appends nothing; in particular a stop() or a
\* set_enabled(false) called during Recording ends with the stream closed.
C37_IdleHasNoStream ==
    /\ [](state = "Idle" => ~recorder.stream)
    /\ [][(CallStop \/ CallSetEnabled(FALSE)) /\ state = "Recording" =>
            ~recorder'.stream]_vars

\* C38: events that arrive while a transcription is in flight are discarded,
\* not deferred. A Start or a Stop that update() takes in Transcribing only
\* leaves the channel: nothing else changes. A recording begins only in the
\* step that takes a Start out of the channel while the state is Idle. The
\* result is looked at only once the channel is found empty, so every event
\* of the same update() was handled before, in Transcribing.
C38_NotDeferred ==
    /\ [][UpdateEvent /\ state = "Transcribing" =>
            /\ events' = Tail(events)
            /\ UNCHANGED <<manager_vars, alive, event_rx, stop_flag,
                           thread_handle, watcher_vars, audio_vars,
                           worker_vars>>]_vars
    /\ [][state # "Recording" /\ state' = "Recording" =>
            /\ state = "Idle"
            /\ try_recv = "DictateStart"
            /\ events' = Tail(events)]_vars
    /\ [][state = "Transcribing" /\ result_rx # 0 /\ result_rx' = 0 /\ alive' =>
            /\ try_recv = "None"
            /\ state' = "Idle"
            /\ UNCHANGED <<events, recorder, sessions>>]_vars

\* C38 witness: the only watcher there ever was has sent a Start after the
\* Stop that ended the one capture; update() has taken that Start in
\* Transcribing, the channel is empty, the result is waiting, and the same
\* update() is about to consume it
C38_Witness ==
    /\ spawned = 1 /\ event_rx = 1
    /\ watchers[1].pc = "loop"
    /\ CALLBACK_STATE.is_dictating
    /\ events = <<>>
    /\ upc = "events"
    /\ state = "Transcribing"
    /\ sessions = 1
    /\ recorder = NoRecorder
    /\ result_rx = 1
    /\ result_msg.kind = "Transcribed"

\* a call the owner of the manager makes between two update() calls
OwnerCall ==
    \/ CallStart
    \/ CallStop
    \/ \E b \in BOOLEAN : CallSetEnabled(b)
    \/ DropManager

\* C39: while the manager is disabled update() changes nothing: outside the
\* owner's calls no event leaves the channel, no result is consumed, and no
\* field of the manager changes (a recorder that is still capturing goes on
\* receiving samples from the hardware callback, and stays as it is). set_enabled(false) has the effects of
\* stop(): watcher told to stop, handle and receiver dropped, overlay hidden,
\* state Idle. set_enabled(true) changes the flag alone, so the watcher is
\* not restarted: as long as there is no receiver the state stays Idle, and
\* a receiver comes only from start().
C39_DisabledAndReenabled ==
    /\ [](upc # "idle" => enabled)
    /\ [][~enabled /\ ~OwnerCall =>
            /\ UNCHANGED <<state, enabled, transcriber, overlay, result_rx,
                           coord_vars, injections, sessions>>
            /\ recorder'.id = recorder.id /\ recorder'.stream = recorder.stream
            /\ Len(events') >= Len(events)
            /\ SubSeq(events', 1, Len(events)) = events
            /\ result_msg # NoMessage => result_msg' = result_msg]_vars
    /\ [][CallSetEnabled(FALSE) =>
            /\ ~enabled'
            /\ state' = "Idle"
            /\ overlay' = hide(overlay)
            /\ event_rx' = 0 /\ stop_flag' = 0 /\ thread_handle' = 0
            /\ events' = <<>>
            /\ stop_flag # 0 => watchers'[stop_flag].stop
            /\ UNCHANGED <<recorder, result_rx, result_msg, spawned>>]_vars
    /\ [][CallSetEnabled(TRUE) =>
            /\ enabled'
            /\ UNCHANGED <<state, transcriber, recorder, overlay, result_rx,
                           coord_vars, globe_vars, watcher_vars, audio_vars,
                           worker_vars>>]_vars
    /\ [][event_rx = 0 /\ state = "Idle" /\ ~CallStart => state' = "Idle"]_vars
    /\ [][event_rx = 0 /\ event_rx' # 0 => CallStart /\ spawned' = spawned + 1]_vars

\* C39 witness: set_enabled(false) was called during the one recording of
\* the one watcher: the manager is disabled and Idle, the watcher is gone,
\* the overlay hidden, and the recorder is still stored
C39_Witness ==
    /\ alive /\ ~enabled
    /\ upc = "idle"
    /\ spawned = 1 /\ event_rx = 0
    /\ watchers[1].stop
    /\ state = "Idle"
    /\ sessions = 1
    /\ recorder.id = 1
    /\ ~overlay.window

\* ------------------------------------------- the sleep assertion (main.rs)
\* every variable but those of the sleep assertion
SleepFrame ==
    UNCHANGED <<manager_vars, coord_vars, globe_vars, watcher_vars,
                audio_vars, worker_vars, tap_vars, buffer_vars,
                resample_vars, wav_vars, inject_vars, window_vars,
                download_vars, lang_vars, settings_vars>>

\* thread t moves to position pc with the local values loc
sleep_goto(t, pc, loc) ==
    /\ sleep_pc' = [sleep_pc EXCEPT ![t] = pc]
    /\ sleep_local' = [sleep_local EXCEPT ![t] = loc]

\* has_active_assertion
has_active_assertion == CURRENT_ASSERTION_ID # 0

\* the tick thread: tick_counter % 100 == 0, menubar_sync_sleep() is called
TickSync ==
    /\ sleep_pc["tick"] = "idle"
    /\ sleep_goto("tick", "sync", NoSleepLocal)
    /\ UNCHANGED <<CURRENT_ASSERTION_ID, MANUAL_SLEEP_PREVENTION, assertions,
                   assertions_created>>
    /\ SleepFrame

\* the tick thread: tick_counter % 300 == 0 and check_thermal_warning()
\* returns true, release_sleep_assertion() is called
TickThermal ==
    /\ sleep_pc["tick"] = "idle"
    /\ sleep_goto("tick", "release", NoSleepLocal)
    /\ UNCHANGED <<CURRENT_ASSERTION_ID, MANUAL_SLEEP_PREVENTION, assertions,
                   assertions_created>>
    /\ SleepFrame

\* the event loop: show_settings() returned the saved settings; the flag is
\* stored and menubar_sync_sleep() is called
SettingsSaved(sleep_enabled) ==
    /\ sleep_pc["ui"] = "idle"
    /\ MANUAL_SLEEP_PREVENTION' = sleep_enabled
    /\ sleep_goto("ui", "sync", NoSleepLocal)
    /\ UNCHANGED <<CURRENT_ASSERTION_ID, assertions, assertions_created>>
    /\ SleepFrame

\* menubar_sync_sleep: manual_enabled, active and should_prevent; active is
\* what count_active_pids() finds in the directory
menubar_sync_sleep_load(t, active) ==
    /\ sleep_pc[t] = "sync"
    /\ sleep_goto(t, "branch",
          [sleep_local[t] EXCEPT
              !.should_prevent = MANUAL_SLEEP_PREVENTION /\ active > 0])
    /\ UNCHANGED <<CURRENT_ASSERTION_ID, MANUAL_SLEEP_PREVENTION, assertions,
                   assertions_created>>
    /\ SleepFrame

\* menubar_sync_sleep: has_assertion and the choice between create, release
\* and nothing
menubar_sync_sleep(t) ==
    /\ sleep_pc[t] = "branch"
    /\ LET should_prevent == sleep_local[t].should_prevent
           has_assertion  == has_active_assertion
       IN  IF should_prevent /\ ~has_assertion
           THEN sleep_goto(t, "create", NoSleepLocal)
           ELSE IF ~should_prevent /\ has_assertion
           THEN sleep_goto(t, "release", NoSleepLocal)
           ELSE sleep_goto(t, "idle", NoSleepLocal)
    /\ UNCHANGED <<CURRENT_ASSERTION_ID, MANUAL_SLEEP_PREVENTION, assertions,
                   assertions_created>>
    /\ SleepFrame

\* create_sleep_assertion: the load of CURRENT_ASSERTION_ID and the early
\* return
create_sleep_assertion_load(t) ==
    /\ sleep_pc[t] = "create"
    /\ IF CURRENT_ASSERTION_ID # 0
       THEN sleep_goto(t, "idle", NoSleepLocal)
       ELSE sleep_goto(t, "iopm_create", NoSleepLocal)
    /\ UNCHANGED <<CURRENT_ASSERTION_ID, MANUAL_SLEEP_PREVENTION, assertions,
                   assertions_created>>
    /\ SleepFrame

\* the results of IOPMAssertionCreateWithName: kIOReturnSuccess or an error
IOReturns == {0, 1}

\* create_sleep_assertion: IOPMAssertionCreateWithName; on success the power
\* manager holds a new assertion, whose id is in the local assertion_id
create_sleep_assertion(t, result) ==
    /\ sleep_pc[t] = "iopm_create"
    /\ IF result = 0
       THEN /\ assertions_created < MaxAssertions
            /\ assertions_created' = assertions_created + 1
            /\ assertions' = assertions \cup {assertions_created + 1}
            /\ sleep_goto(t, "store",
                  [sleep_local[t] EXCEPT !.assertion_id = assertions_created + 1])
       ELSE /\ UNCHANGED <<assertions, assertions_created>>
            /\ sleep_goto(t, "idle", NoSleepLocal)
    /\ UNCHANGED <<CURRENT_ASSERTION_ID, MANUAL_SLEEP_PREVENTION>>
    /\ SleepFrame

\* create_sleep_assertion: CURRENT_ASSERTION_ID.store(assertion_id)
create_sleep_assertion_store(t) ==
    /\ sleep_pc[t] = "store"
    /\ CURRENT_ASSERTION_ID' = sleep_local[t].assertion_id
    /\ sleep_goto(t, "idle", NoSleepLocal)
    /\ UNCHANGED <<MANUAL_SLEEP_PREVENTION, assertions, assertions_created>>
    /\ SleepFrame

\* release_sleep_assertion: CURRENT_ASSERTION_ID.swap(0)
release_sleep_assertion_swap(t) ==
    /\ sleep_pc[t] = "release"
    /\ CURRENT_ASSERTION_ID' = 0
    /\ IF CURRENT_ASSERTION_ID # 0
       THEN sleep_goto(t, "iopm_release",
               [sleep_local[t] EXCEPT !.assertion_id = CURRENT_ASSERTION_ID])
       ELSE sleep_goto(t, "idle", NoSleepLocal)
    /\ UNCHANGED <<MANUAL_SLEEP_PREVENTION, assertions, assertions_created>>
    /\ SleepFrame

\* release_sleep_assertion: IOPMAssertionRelease(assertion_id)
release_sleep_assertion(t) ==
    /\ sleep_pc[t] = "iopm_release"
    /\ assertions' = assertions \ {sleep_local[t].assertion_id}
    /\ sleep_goto(t, "idle", NoSleepLocal)
    /\ UNCHANGED <<CURRENT_ASSERTION_ID, MANUAL_SLEEP_PREVENTION,
                   assertions_created>>
    /\ SleepFrame

\* what count_active_pids() can return
ActiveCounts == 0..1

\* cmd_menubar stores the flag of the loaded settings before its threads
\* start
InitSleepCall ==
    /\ CURRENT_ASSERTION_ID = 0
    /\ MANUAL_SLEEP_PREVENTION \in BOOLEAN
    /\ assertions = {}
    /\ assertions_created = 0
    /\ sleep_pc = [t \in SleepThreads |-> "idle"]
    /\ sleep_local = [t \in SleepThreads |-> NoSleepLocal]

InitSleep ==
    /\ InitManager
    /\ InitTap
    /\ InitBuffer
    /\ InitNoCall
    /\ InitNoWav
    /\ InitNoInject
    /\ InitOverlay
    /\ InitNoDownload
    /\ InitNoLanguage
    /\ InitNoSettings
    /\ InitSleepCall

NextSleep ==
    \/ TickSync
    \/ TickThermal
    \/ \E sleep_enabled \in BOOLEAN : SettingsSaved(sleep_enabled)
    \/ \E t \in SleepThreads, active \in ActiveCounts :
          menubar_sync_sleep_load(t, active)
    \/ \E t \in SleepThreads : menubar_sync_sleep(t)
    \/ \E t \in SleepThreads : create_sleep_assertion_load(t)
    \/ \E t \in SleepThreads, result \in IOReturns :
          create_sleep_assertion(t, result)
    \/ \E t \in SleepThreads : create_sleep_assertion_store(t)
    \/ \E t \in SleepThreads : release_sleep_assertion_swap(t)
    \/ \E t \in SleepThreads : release_sleep_assertion(t)

SpecSleep == InitSleep /\ [][NextSleep]_vars

\* the assertion ids a thread holds in a local on its way to storing or to
\* releasing them
InHand ==
    {sleep_local[t].assertion_id :
        t \in {u \in SleepThreads : sleep_pc[u] \in {"store", "iopm_release"}}}

\* C40: at most one sleep assertion is held at any time and none is leaked:
\* in every interleaving of the two threads, every assertion the power
\* manager holds is the one recorded in CURRENT_ASSERTION_ID, or is in the
\* hand of a thread that is about to record or to release it.
C40_OneAssertionNoneLeaked ==
    /\ Cardinality(assertions) <= 1
    /\ \A a \in assertions : a = CURRENT_ASSERTION_ID \/ a \in InHand

====
